---- MODULE Spec2Model ----
(***************************************************************************)
(* Model of the beading-editor application: the grid sampler, the          *)
(* workspace<->document transform, the fill predicates produced by the     *)
(* DXF and SVG loaders, and the handlers of BeadingStudio (src/main.js)    *)
(* and of the older PixelGridDemo class (src/canvas-renderer.js).          *)
(*                                                                         *)
(* JavaScript numbers are modelled as exact rationals <<n, d>> in lowest   *)
(* terms with d > 0.  The two non-numbers the code can hold in a numeric   *)
(* field are encoded with denominator 0: Null = <<0, 0>>, NaN = <<1, 0>>.  *)
(***************************************************************************)
EXTENDS Integers, Sequences, FiniteSets, TLC

----------------------------------------------------------------------------
(* Exact rational arithmetic standing for JavaScript number arithmetic.    *)

Abs(a) == IF a < 0 THEN -a ELSE a

RECURSIVE GCD(_, _)
GCD(a, b) == IF b = 0 THEN a ELSE GCD(b, a % b)

Norm(n, d) ==
    IF d = 0 THEN <<1, 0>>
    ELSE IF d = 1 THEN <<n, 1>>
    ELSE LET g == GCD(Abs(n), Abs(d))
             s == IF d < 0 THEN -1 ELSE 1
         IN  <<(s * n) \div g, (s * d) \div g>>

R(n) == <<n, 1>>
Q(n, d) == Norm(n, d)
Null == <<0, 0>>
NaN == <<1, 0>>

IsNum(a) == a[2] # 0
Truthy(a) == a[2] # 0 /\ a[1] # 0

RAdd(a, b) == Norm(a[1] * b[2] + b[1] * a[2], a[2] * b[2])
RSub(a, b) == Norm(a[1] * b[2] - b[1] * a[2], a[2] * b[2])
RMul(a, b) == Norm(a[1] * b[1], a[2] * b[2])
RDiv(a, b) == Norm(a[1] * b[2], a[2] * b[1])
RLt(a, b) == a[1] * b[2] < b[1] * a[2]
RLe(a, b) == a[1] * b[2] <= b[1] * a[2]
RGt(a, b) == RLt(b, a)
RGe(a, b) == RLe(b, a)
RFloor(a) == a[1] \div a[2]
RMin(a, b) == IF RLe(a, b) THEN a ELSE b
RMax(a, b) == IF RLe(a, b) THEN b ELSE a
IMax(a, b) == IF a >= b THEN a ELSE b

----------------------------------------------------------------------------
(* Program constants.                                                      *)

SAMPLE_GRID_SIZE == 5
SVG_RESOLUTION == 800
RASTERIZATION_RESOLUTION == 800

MIN_FILL_THRESHOLD == R(0)
MAX_FILL_THRESHOLD == R(1)
MIN_WORKSPACE_SIZE_MM == R(10)
MAX_WORKSPACE_SIZE_MM == R(1000)
MIN_GRID_OFFSET_MM == R(-50)
MAX_GRID_OFFSET_MM == R(50)
MIN_SCALE == Q(1, 10)
MAX_SCALE == R(10)
SCALE_EPSILON == Q(1, 1000)

----------------------------------------------------------------------------
(* Fill predicates.  A predicate is the closure the loader returned: it    *)
(* captures the raster (the list of shapes painted black on the white      *)
(* resolution x resolution canvas, in canvas pixels) and, for the wrapper  *)
(* built by applyScale, the scale.                                         *)

EmptyDrawing == [kind |-> "empty", image |-> <<>>, resolution |-> 1, scale |-> R(1)]

\* The 2D canvas: a pixel is black when its centre (px + 1/2, py + 1/2) lies
\* inside a painted shape.  The circle test (dx^2 + dy^2 < r^2) is written
\* with the denominators multiplied out; a polygon is filled by the nonzero
\* winding rule, its path closed from the last point to the first.
RECURSIVE FracLt(_, _, _, _)
\* a/b < c/d for integers with b > 0 and d > 0, by continued fractions (no
\* product is formed, so large numbers do not overflow).
FracLt(a, b, c, d) ==
    LET qa == a \div b
        qc == c \div d
        ra == a - qa * b
        rc == c - qc * d
    IN  IF qa # qc THEN qa < qc
        ELSE IF rc = 0 THEN FALSE
        ELSE IF ra = 0 THEN TRUE
        ELSE FracLt(d, rc, b, ra)

\* The quotient p/q of two rationals (q # 0) as <<numerator, denominator>>
\* with a positive denominator, not reduced.
Ratio(p, q) ==
    IF q[1] > 0 THEN <<p[1] * q[2], p[2] * q[1]>>
    ELSE <<-(p[1] * q[2]), -(p[2] * q[1])>>

\* The edge from a to b crosses the horizontal line through (cx, cy) to the
\* right of that point: cx < a.x + (b.x - a.x) * (cy - a.y) / (b.y - a.y).
\* Asked only for edges with a.y # b.y.
CrossesRightOf(a, b, cx, cy) ==
    LET t == Ratio(RSub(cy, a.y), RSub(b.y, a.y))
        dx == RSub(cx, a.x)
        run == RSub(b.x, a.x)
    IN  IF run[1] = 0 THEN dx[1] < 0
        ELSE IF run[1] > 0
             THEN FracLt(Ratio(dx, run)[1], Ratio(dx, run)[2], t[1], t[2])
             ELSE FracLt(t[1], t[2], Ratio(dx, run)[1], Ratio(dx, run)[2])

PolygonCovers(points, px, py) ==
    LET n == Len(points)
        cx == <<2 * px + 1, 2>>
        cy == <<2 * py + 1, 2>>
        upward == {k \in 1..n :
                     LET a == points[k]
                         b == points[(k % n) + 1]
                     IN  RLe(a.y, cy) /\ RLt(cy, b.y) /\ CrossesRightOf(a, b, cx, cy)}
        downward == {k \in 1..n :
                       LET a == points[k]
                           b == points[(k % n) + 1]
                       IN  RLe(b.y, cy) /\ RLt(cy, a.y) /\ CrossesRightOf(a, b, cx, cy)}
    IN  Cardinality(upward) # Cardinality(downward)

ShapeCovers(sh, px, py) ==
    CASE sh.type = "circle" ->
           LET bx == sh.cx[2]
               by == sh.cy[2]
               X == (2 * px + 1) * bx - 2 * sh.cx[1]
               Y == (2 * py + 1) * by - 2 * sh.cy[1]
           IN  (X * X * by * by + Y * Y * bx * bx) * sh.r[2] * sh.r[2]
                  < 4 * bx * bx * by * by * sh.r[1] * sh.r[1]
      [] sh.type = "polygon" -> PolygonCovers(sh.points, px, py)
      [] sh.type = "ellipse" ->
           \* (dx / rx)^2 + (dy / ry)^2 < 1, as (dx / rx)^2 < 1 - (dy / ry)^2
           LET u == Ratio(RSub(<<2 * px + 1, 2>>, sh.cx), sh.rx)
               v == Ratio(RSub(<<2 * py + 1, 2>>, sh.cy), sh.ry)
           IN  FracLt(u[1] * u[1], u[2] * u[2], v[2] * v[2] - v[1] * v[1], v[2] * v[2])
      [] OTHER ->
           LET cx == <<2 * px + 1, 2>>
               cy == <<2 * py + 1, 2>>
           IN  /\ RLe(sh.x0, cx) /\ RLt(cx, sh.x1)
               /\ RLe(sh.y0, cy) /\ RLt(cy, sh.y1)

ImagePixelDark(image, px, py) ==
    \E i \in 1..Len(image) : ShapeCovers(image[i], px, py)

\* The closure without its bounds check: the index into the pixel array
\* wraps round the image.
RasterPredicate_NoBounds(d, normalizedX, normalizedY) ==
    LET x == RFloor(<<normalizedX[1] * d.resolution, normalizedX[2]>>)
        y == RFloor(<<normalizedY[1] * d.resolution, normalizedY[2]>>)
    IN  ImagePixelDark(d.image, x % d.resolution, y % d.resolution)

\* The closure returned by createDrawingFunction and by loadSVG.
RasterPredicate(d, normalizedX, normalizedY) ==
    LET x == RFloor(<<normalizedX[1] * d.resolution, normalizedX[2]>>)
        y == RFloor(<<normalizedY[1] * d.resolution, normalizedY[2]>>)
    IN  IF x < 0 \/ x >= d.resolution \/ y < 0 \/ y >= d.resolution
        THEN FALSE
        ELSE ImagePixelDark(d.image, x, y)

\* The closure built by applyScale around originalFunc for currentScale.
ScaledPredicate(d, currentScale, normalizedX, normalizedY) ==
    LET centerX == Q(1, 2)
        centerY == Q(1, 2)
        dx == RSub(normalizedX, centerX)
        dy == RSub(normalizedY, centerY)
        origX == RAdd(centerX, RDiv(dx, currentScale))
        origY == RAdd(centerY, RDiv(dy, currentScale))
    IN  IF RLt(origX, R(0)) \/ RGt(origX, R(1)) \/ RLt(origY, R(0)) \/ RGt(origY, R(1))
        THEN FALSE
        ELSE RasterPredicate(d, origX, origY)

\* Calling this.originalDrawing(x, y) on object s.  The PixelGridDemo
\* wrapper reads this.scale when it is called ("live"), the BeadingStudio
\* wrapper the scale captured when it was built.
CallDrawing(s, d, x, y) ==
    CASE d.kind = "empty"  -> FALSE
      [] d.kind = "raster" -> RasterPredicate(d, x, y)
      [] d.kind = "scaled" -> ScaledPredicate(d, d.scale, x, y)
      [] d.kind = "live"   -> ScaledPredicate(d, s.scale, x, y)

----------------------------------------------------------------------------
(* Grid sampler.                                                           *)

\* The quotient without the lower bound of 1.
GridDim_NoMax(workspaceMM, pixelMM) == RFloor(RDiv(workspaceMM, pixelMM))

GridDim(workspaceMM, pixelMM) == IMax(1, RFloor(RDiv(workspaceMM, pixelMM)))

FileLoaded(s) == s.hasLoadedFile /\ Truthy(s.fileWidthMM) /\ Truthy(s.fileHeightMM)

\* scaleX, scaleY, offsetX, offsetY of the workspace->document transform.
SamplerTransform(s) ==
    IF FileLoaded(s)
    THEN LET scaleX == RDiv(s.fileWidthMM, s.workspaceWidthMM)
             scaleY == RDiv(s.fileHeightMM, s.workspaceHeightMM)
         IN  [scaleX |-> scaleX, scaleY |-> scaleY,
              offsetX |-> RDiv(RSub(R(1), scaleX), R(2)),
              offsetY |-> RDiv(RSub(R(1), scaleY), R(2))]
    ELSE [scaleX |-> R(1), scaleY |-> R(1), offsetX |-> R(0), offsetY |-> R(0)]

SampleIdx == 0..(SAMPLE_GRID_SIZE - 1)

OffsetLocal(k) == RAdd(Q(1, 20), RMul(RDiv(R(k), R(SAMPLE_GRID_SIZE - 1)), Q(9, 10)))

WorkspaceCoord(x, pixelPx, k, canvas) == RDiv(RAdd(x, RMul(pixelPx, OffsetLocal(k))), canvas)

ToFile(workspaceC, offset, scale) == RDiv(RSub(workspaceC, offset), scale)

OutsideFile(fileX, fileY) ==
    RLt(fileX, R(0)) \/ RGt(fileX, R(1)) \/ RLt(fileY, R(0)) \/ RGt(fileY, R(1))

\* The table of a function over 1..n.
Tabulate(f) == f \o <<>>

\* The document coordinates of the 5 x 5 samples of the cell at (x, y):
\* sample (i, j) has the i-th abscissa and the j-th ordinate.
SampleCoords(s, x, y, pixelWidthPx, pixelHeightPx, canvasWidth, canvasHeight, t) ==
    LET fx == Tabulate([k \in 1..SAMPLE_GRID_SIZE |->
                 LET w == WorkspaceCoord(x, pixelWidthPx, k - 1, canvasWidth)
                 IN  IF FileLoaded(s) THEN ToFile(w, t.offsetX, t.scaleX) ELSE w])
        fy == Tabulate([k \in 1..SAMPLE_GRID_SIZE |->
                 LET w == WorkspaceCoord(y, pixelHeightPx, k - 1, canvasHeight)
                 IN  IF FileLoaded(s) THEN ToFile(w, t.offsetY, t.scaleY) ELSE w])
    IN  [p \in SampleIdx \X SampleIdx |-> <<fx[p[1] + 1], fy[p[2] + 1]>>]

\* The two counters after the loops over the samples at coordinates c, of
\* which the samples in counted are counted.
CountedPoints(s, c, counted) ==
    [totalPoints  |-> Cardinality(counted),
     filledPoints |-> Cardinality({p \in counted :
                          CallDrawing(s, s.originalDrawing, c[p][1], c[p][2])})]

\* BeadingStudio.calculateBeadFillPercentage: the two counters after the loops.
SamplePoints(s, x, y, pixelWidthPx, pixelHeightPx, canvasWidth, canvasHeight, t) ==
    CountedPoints(s, SampleCoords(s, x, y, pixelWidthPx, pixelHeightPx, canvasWidth, canvasHeight, t),
                  SampleIdx \X SampleIdx)

\* The samples PixelGridDemo counts: those inside the file.
InsideFile(s, c) == {p \in DOMAIN c : ~(FileLoaded(s) /\ OutsideFile(c[p][1], c[p][2]))}

\* PixelGridDemo.calculateBeadFillPercentage: samples outside the file are skipped.
DemoSamplePoints(s, x, y, pixelWidthPx, pixelHeightPx, canvasWidth, canvasHeight, t) ==
    CountedPoints(s, SampleCoords(s, x, y, pixelWidthPx, pixelHeightPx, canvasWidth, canvasHeight, t),
                  InsideFile(s, SampleCoords(s, x, y, pixelWidthPx, pixelHeightPx,
                                             canvasWidth, canvasHeight, t)))

Percentage(n) == IF n.totalPoints > 0 THEN Q(n.filledPoints, n.totalPoints) ELSE R(0)

calculateBeadFillPercentage(s, x, y, pixelWidthPx, pixelHeightPx, canvasWidth, canvasHeight, t) ==
    Percentage(IF s.cls = "PixelGridDemo"
               THEN DemoSamplePoints(s, x, y, pixelWidthPx, pixelHeightPx, canvasWidth, canvasHeight, t)
               ELSE SamplePoints(s, x, y, pixelWidthPx, pixelHeightPx, canvasWidth, canvasHeight, t))

\* The comparison without the branch for a zero threshold.
IsFilled_NoZeroCase(s, fillPercentage) == RGe(fillPercentage, s.fillThreshold)

\* The comparison turned round for a positive threshold.
IsFilled_Reversed(s, fillPercentage) ==
    IF s.fillThreshold = R(0)
    THEN RGt(fillPercentage, R(0))
    ELSE RLe(fillPercentage, s.fillThreshold)

\* The classification of a cell from its fill percentage.
IsFilled(s, fillPercentage) ==
    IF s.fillThreshold = R(0)
    THEN RGt(fillPercentage, R(0))
    ELSE RGe(fillPercentage, s.fillThreshold)

DemoIsFilled(s, fillPercentage) == RGe(fillPercentage, s.fillThreshold)

Classify(s, fillPercentage) ==
    IF s.cls = "PixelGridDemo" THEN DemoIsFilled(s, fillPercentage) ELSE IsFilled(s, fillPercentage)

\* The locals every sampling method derives from the canvas and the grid.
GridGeometry(s, gridWidth, gridHeight) ==
    LET canvasWidth == s.currentCanvasWidth
        canvasHeight == s.currentCanvasHeight
    IN  [canvasWidth   |-> canvasWidth,
         canvasHeight  |-> canvasHeight,
         pixelWidthPx  |-> RDiv(canvasWidth, R(gridWidth)),
         pixelHeightPx |-> RDiv(canvasHeight, R(gridHeight)),
         gridOffsetPxX |-> RMul(RDiv(s.gridOffsetX, s.workspaceWidthMM), canvasWidth),
         gridOffsetPxY |-> RMul(RDiv(s.gridOffsetY, s.workspaceHeightMM), canvasHeight)]

Half(a) == RDiv(a, R(2))

\* The two topologies' shifts exchanged.
CellOrigin_Swapped(s, g, row, col) ==
    LET offsetPxX == IF s.gridType = "peyote" /\ row % 2 = 1 THEN Half(g.pixelWidthPx) ELSE R(0)
        offsetPxY == IF s.gridType = "brick" /\ col % 2 = 1 THEN Half(g.pixelHeightPx) ELSE R(0)
    IN  [x |-> RAdd(RAdd(RMul(R(col), g.pixelWidthPx), offsetPxX), g.gridOffsetPxX),
         y |-> RAdd(RAdd(RMul(R(row), g.pixelHeightPx), offsetPxY), g.gridOffsetPxY)]

\* countFilledBeads: screen coordinates of cell (row, col).
CellOrigin(s, g, row, col) ==
    LET offsetPxX == IF s.gridType = "brick" /\ row % 2 = 1 THEN Half(g.pixelWidthPx) ELSE R(0)
        offsetPxY == IF s.gridType = "peyote" /\ col % 2 = 1 THEN Half(g.pixelHeightPx) ELSE R(0)
    IN  [x |-> RAdd(RAdd(RMul(R(col), g.pixelWidthPx), offsetPxX), g.gridOffsetPxX),
         y |-> RAdd(RAdd(RMul(R(row), g.pixelHeightPx), offsetPxY), g.gridOffsetPxY)]

CellFill(s, g, o) ==
    calculateBeadFillPercentage(s, o.x, o.y, g.pixelWidthPx, g.pixelHeightPx,
                                g.canvasWidth, g.canvasHeight, SamplerTransform(s))

\* The cells countFilledBeads counts.
FilledCells(s, gridWidth, gridHeight) ==
    LET g == GridGeometry(s, gridWidth, gridHeight)
    IN  {c \in (0..(gridHeight - 1)) \X (0..(gridWidth - 1)) :
            Classify(s, CellFill(s, g, CellOrigin(s, g, c[1], c[2])))}

countFilledBeads(s, gridWidth, gridHeight) ==
    IF s.originalDrawing.kind = "null" THEN 0
    ELSE Cardinality(FilledCells(s, gridWidth, gridHeight))

\* countBeadsInRow: screen coordinates of the cells of row/column rowIndex.
RowCellOrigin(s, g, row, col) ==
    IF s.gridType = "peyote"
    THEN LET offsetPxY == IF col % 2 = 1 THEN Half(g.pixelHeightPx) ELSE R(0)
         IN  [x |-> RAdd(RMul(R(col), g.pixelWidthPx), g.gridOffsetPxX),
              y |-> RAdd(RAdd(RMul(R(row), g.pixelHeightPx), offsetPxY), g.gridOffsetPxY)]
    ELSE LET offsetPxX == IF row % 2 = 1 THEN Half(g.pixelWidthPx) ELSE R(0)
         IN  [x |-> RAdd(RAdd(RMul(R(col), g.pixelWidthPx), offsetPxX), g.gridOffsetPxX),
              y |-> RAdd(RMul(R(row), g.pixelHeightPx), g.gridOffsetPxY)]

OffCanvas(g, o) ==
    RLt(o.x, R(0)) \/ RGe(o.x, g.canvasWidth) \/ RLt(o.y, R(0)) \/ RGe(o.y, g.canvasHeight)

\* The cells countBeadsInRow counts for rowIndex.
RowFilledCells(s, rowIndex) ==
    LET gridWidth == GridDim(s.workspaceWidthMM, s.pixelWidthMM)
        gridHeight == GridDim(s.workspaceHeightMM, s.pixelHeightMM)
        g == GridGeometry(s, gridWidth, gridHeight)
        cells == CASE s.gridType = "peyote" -> {<<row, rowIndex>> : row \in 0..(gridHeight - 1)}
                   [] s.gridType = "brick"  -> {<<rowIndex, col>> : col \in 0..(gridWidth - 1)}
                   [] OTHER -> {}
    IN  {c \in cells :
            LET o == RowCellOrigin(s, g, c[1], c[2])
            IN  ~OffCanvas(g, o) /\ Classify(s, CellFill(s, g, o))}

countBeadsInRow(s, rowIndex) ==
    IF rowIndex = -1 \/ s.originalDrawing.kind = "null" THEN 0
    ELSE Cardinality(RowFilledCells(s, rowIndex))

\* isBeadFilled (BeadingStudio only): the fill percentage it computes.
BeadFill(s, row, col) ==
    LET gridWidth == GridDim(s.workspaceWidthMM, s.pixelWidthMM)
        gridHeight == GridDim(s.workspaceHeightMM, s.pixelHeightMM)
        g == GridGeometry(s, gridWidth, gridHeight)
    IN  CellFill(s, g, RowCellOrigin(s, g, row, col))

isBeadFilled(s, row, col) ==
    IF s.originalDrawing.kind = "null" THEN FALSE
    ELSE IsFilled(s, BeadFill(s, row, col))

----------------------------------------------------------------------------
(* Loaders.  A DXF file is given by the entity list parseDXF returns for   *)
(* it, an SVG file by its root attributes and its drawable elements.  A    *)
(* loader result is [ok |-> TRUE, contour, drawingFunction, width, height] *)
(* or [ok |-> FALSE] when the loader throws.                               *)

Thrown == [ok |-> FALSE, contour |-> <<>>, drawingFunction |-> EmptyDrawing,
           width |-> Null, height |-> Null]

Pt(x, y) == [x |-> x, y |-> y]

\* The entities the DXF documents are put together from.
Line(x1, y1, x2, y2) == [type |-> "LINE", x1 |-> x1, y1 |-> y1, x2 |-> x2, y2 |-> y2]
Circle(cx, cy, radius) == [type |-> "CIRCLE", cx |-> cx, cy |-> cy, radius |-> radius]
Arc(cx, cy, radius, startAngle, endAngle) ==
    [type |-> "ARC", cx |-> cx, cy |-> cy, radius |-> radius,
     startAngle |-> startAngle, endAngle |-> endAngle]
Polyline(type, vertices, closed) == [type |-> type, vertices |-> vertices, closed |-> closed]

\* Number.MAX_VALUE, scaled down: a sum of finite numbers beyond it is
\* +Infinity or -Infinity.  Non-finite numbers have denominator 0.
MAX_VALUE == 1000000
Infinity == <<2, 0>>
NegInfinity == <<-2, 0>>

Overflow(x) ==
    IF RGt(x, R(MAX_VALUE)) THEN Infinity
    ELSE IF RLt(x, R(-MAX_VALUE)) THEN NegInfinity ELSE x

\* a < b and a <= b of JavaScript: false when either side is NaN.
JsLt(a, b) == IsNum(a) /\ IsNum(b) /\ RLt(a, b)

\* Math.min and Math.max on numbers that are finite or infinite.
JsMin(a, b) ==
    IF a = NegInfinity \/ b = Infinity THEN a
    ELSE IF b = NegInfinity \/ a = Infinity THEN b
    ELSE RMin(a, b)

JsMax(a, b) ==
    IF a = Infinity \/ b = NegInfinity THEN a
    ELSE IF b = Infinity \/ a = NegInfinity THEN b
    ELSE RMax(a, b)

\* The elements of a set of integers in ascending order.
Ascending(S) ==
    [k \in 1..Cardinality(S) |-> CHOOSE i \in S : Cardinality({j \in S : j < i}) = k - 1]

\* cos and sin at the quarter turns 0, 90, 180, 270 and 360 degrees.
QuarterCos == <<R(1), R(0), R(-1), R(0), R(1)>>
QuarterSin == <<R(0), R(1), R(0), R(-1), R(0)>>

\* The angles of generateArcPoints, for start and end angles given in
\* whole degrees: startRad, endRad and arcLength in degrees, and the
\* number of steps.  A sweep below 0.001 radians is a sweep of 0 degrees.
ArcSweep(arc, steps) ==
    LET startDeg == RFloor(arc.startAngle) % 360
        endDeg == RFloor(arc.endAngle) % 360
        arcLength == IF (endDeg - startDeg) % 360 = 0 THEN 360
                     ELSE (endDeg - startDeg) % 360
        numSteps == IMax(steps, (arcLength * 30) \div 360)
    IN  [startDeg |-> startDeg, endDeg |-> endDeg, arcLength |-> arcLength,
         actualSteps |-> IMax(2, numSteps)]

\* The number of points that the loop of generateArcPoints pushes: the
\* steps whose x and y pass the isFinite test.  At a whole number of
\* quarter turns the cosine and the sine are 0, 1 or -1; at any other
\* angle they lie strictly between 0 and 1 or between 0 and -1, and the
\* coordinate lies strictly between the centre and the centre plus or minus
\* the radius: it is finite when that end is, for a centre that is at the
\* edge of the number range or a circle that lies within the range.
ArcPointCount(arc, steps) ==
    IF ~IsNum(arc.startAngle) \/ ~IsNum(arc.endAngle) THEN 0
    ELSE LET sweep == ArcSweep(arc, steps)
             turn(i) == sweep.startDeg * sweep.actualSteps + i * sweep.arcLength
             quarter(i) == (turn(i) \div (90 * sweep.actualSteps)) % 4
             onQuarter(i) == turn(i) % (90 * sweep.actualSteps) = 0
             cos(i) == IF onQuarter(i) THEN QuarterCos[quarter(i) + 1]
                       ELSE IF quarter(i) \in {0, 3} THEN R(1) ELSE R(-1)
             sin(i) == IF onQuarter(i) THEN QuarterSin[quarter(i) + 1]
                       ELSE IF quarter(i) \in {0, 1} THEN R(1) ELSE R(-1)
         IN  Cardinality({i \in 0..sweep.actualSteps :
                            /\ IsNum(Overflow(RAdd(arc.cx, RMul(arc.radius, cos(i)))))
                            /\ IsNum(Overflow(RAdd(arc.cy, RMul(arc.radius, sin(i)))))})

\* generateArcPoints, for angles given in whole degrees.  Of the
\* actualSteps + 1 points of the tessellation the model keeps those whose
\* angle is a whole number of quarter turns (their cosine and sine are
\* rational); for an arc that starts and ends on a quarter turn the first
\* and the last point are among them.
generateArcPoints(arc, steps) ==
    LET Points(sweep) ==
            LET turn(i) == sweep.startDeg * sweep.actualSteps + i * sweep.arcLength
                point(i) == LET q == (turn(i) \div (90 * sweep.actualSteps)) % 4
                            IN  Pt(Overflow(RAdd(arc.cx, RMul(arc.radius, QuarterCos[q + 1]))),
                                   Overflow(RAdd(arc.cy, RMul(arc.radius, QuarterSin[q + 1]))))
                kept == {i \in 0..sweep.actualSteps :
                           /\ turn(i) % (90 * sweep.actualSteps) = 0
                           /\ IsNum(point(i).x) /\ IsNum(point(i).y)}
                order == Ascending(kept)
            IN  [k \in 1..Len(order) |-> point(order[k])]
    IN  IF ~IsNum(arc.startAngle) \/ ~IsNum(arc.endAngle) THEN <<>>
        ELSE Points(ArcSweep(arc, steps))

NoExtent ==
    [valid |-> FALSE, minX |-> Infinity, minY |-> Infinity,
     maxX |-> NegInfinity, maxY |-> NegInfinity]

\* min and max over the points of a list whose two coordinates are finite.
PointsExtent(points) ==
    LET ok == {i \in 1..Len(points) : IsNum(points[i].x) /\ IsNum(points[i].y)}
        xs == {points[i].x : i \in ok}
        ys == {points[i].y : i \in ok}
    IN  IF ok = {} THEN NoExtent
        ELSE [valid |-> TRUE,
              minX |-> CHOOSE a \in xs : \A b \in xs : RLe(a, b),
              minY |-> CHOOSE a \in ys : \A b \in ys : RLe(a, b),
              maxX |-> CHOOSE a \in xs : \A b \in xs : RLe(b, a),
              maxY |-> CHOOSE a \in ys : \A b \in ys : RLe(b, a)]

\* cos and sin of 1.8, 3.6 and 6 degrees, by tenths of a degree: the
\* values cut to two decimals, so that they are below the true ones by
\* less than 0.01.
SmallCos(tenths) == CASE tenths \in {18, 36, 60} -> Q(99, 100)
SmallSin(tenths) == CASE tenths = 18 -> Q(3, 100) [] tenths = 36 -> Q(6, 100) [] tenths = 60 -> Q(1, 10)

\* calculateArcBoundingBox.  To the points that the model of
\* generateArcPoints keeps, the box adds the two steps on either side of
\* every quarter turn that falls between two steps of the tessellation:
\* they carry the extent of the arc in that direction, a little less than
\* the radius.  Their cosine and sine are taken from SmallCos and SmallSin.
calculateArcBoundingBox(arc) ==
    LET Box(points) ==
            IF Len(points) = 0
            THEN [valid |-> TRUE,
                  minX |-> Overflow(RSub(arc.cx, arc.radius)), minY |-> Overflow(RSub(arc.cy, arc.radius)),
                  maxX |-> Overflow(RAdd(arc.cx, arc.radius)), maxY |-> Overflow(RAdd(arc.cy, arc.radius))]
            ELSE PointsExtent(points)
        Beside(sweep) ==
            LET unit == 90 * sweep.actualSteps
                turn(i) == sweep.startDeg * sweep.actualSteps + i * sweep.arcLength
                \* The quarter turn next to step i, and the offset of the
                \* step from it in tenths of a degree.
                after(i) == (turn(i) % unit) * 2 > unit
                q(i) == ((turn(i) \div unit) + (IF after(i) THEN 1 ELSE 0)) % 4
                tenths(i) == ((IF after(i) THEN unit - (turn(i) % unit) ELSE turn(i) % unit) * 10)
                                \div sweep.actualSteps
                sign(i) == IF after(i) THEN R(-1) ELSE R(1)
                \* cos(q + d) = cos q cos d - sin q sin d, sin(q + d) = sin q cos d + cos q sin d
                cos(i) == RSub(RMul(QuarterCos[q(i) + 1], SmallCos(tenths(i))),
                               RMul(QuarterSin[q(i) + 1], RMul(sign(i), SmallSin(tenths(i)))))
                sin(i) == RAdd(RMul(QuarterSin[q(i) + 1], SmallCos(tenths(i))),
                               RMul(QuarterCos[q(i) + 1], RMul(sign(i), SmallSin(tenths(i)))))
                point(i) == Pt(Overflow(RAdd(arc.cx, RMul(arc.radius, cos(i)))),
                               Overflow(RAdd(arc.cy, RMul(arc.radius, sin(i)))))
                \* Step i and its neighbour lie on two sides of a quarter turn.
                beside(i) ==
                    /\ turn(i) % unit # 0
                    /\ \/ i < sweep.actualSteps /\ turn(i + 1) % unit # 0
                             /\ turn(i + 1) \div unit > turn(i) \div unit
                       \/ i > 0 /\ turn(i - 1) % unit # 0
                             /\ turn(i - 1) \div unit < turn(i) \div unit
                order == Ascending({i \in 0..sweep.actualSteps : beside(i)})
                finite == SelectSeq([k \in 1..Len(order) |-> point(order[k])],
                                    LAMBDA p : IsNum(p.x) /\ IsNum(p.y))
            IN  finite
    IN  IF ~IsNum(arc.startAngle) \/ ~IsNum(arc.endAngle) THEN Box(<<>>)
        ELSE Box(generateArcPoints(arc, 50) \o Beside(ArcSweep(arc, 50)))

\* What one entity contributes to the bounding box (valid = it is counted).
EntityExtent(e) ==
    LET Checked(arcBbox) ==
            IF IsNum(arcBbox.minX) /\ IsNum(arcBbox.minY)
               /\ IsNum(arcBbox.maxX) /\ IsNum(arcBbox.maxY)
            THEN arcBbox ELSE NoExtent
    IN  CASE e.type = "LINE" ->
               IF IsNum(e.x1) /\ IsNum(e.y1) /\ IsNum(e.x2) /\ IsNum(e.y2)
               THEN PointsExtent(<<Pt(e.x1, e.y1), Pt(e.x2, e.y2)>>)
               ELSE NoExtent
          [] e.type = "CIRCLE" ->
               IF IsNum(e.cx) /\ IsNum(e.cy) /\ IsNum(e.radius)
               THEN [valid |-> TRUE,
                     minX |-> Overflow(RSub(e.cx, e.radius)), minY |-> Overflow(RSub(e.cy, e.radius)),
                     maxX |-> Overflow(RAdd(e.cx, e.radius)), maxY |-> Overflow(RAdd(e.cy, e.radius))]
               ELSE NoExtent
          [] e.type = "ARC" ->
               IF /\ IsNum(e.cx) /\ IsNum(e.cy) /\ IsNum(e.radius)
                  /\ IsNum(e.startAngle) /\ IsNum(e.endAngle) /\ RGt(e.radius, R(0))
               THEN Checked(calculateArcBoundingBox(e))
               ELSE NoExtent
          [] e.type \in {"POLYLINE", "LWPOLYLINE"} -> PointsExtent(e.vertices)
          [] e.type = "ELLIPSE" ->
               IF IsNum(e.centerX) /\ IsNum(e.centerY) /\ IsNum(e.majorAxisLength)
               THEN [valid |-> TRUE,
                     minX |-> Overflow(RSub(e.centerX, e.majorAxisLength)),
                     minY |-> Overflow(RSub(e.centerY, e.majorAxisLength)),
                     maxX |-> Overflow(RAdd(e.centerX, e.majorAxisLength)),
                     maxY |-> Overflow(RAdd(e.centerY, e.majorAxisLength))]
               ELSE NoExtent
          [] e.type = "SPLINE" -> PointsExtent(e.controlPoints)
          [] OTHER -> NoExtent

RECURSIVE BBoxFold(_, _, _)
BBoxFold(entities, i, acc) ==
    LET Merged(x) ==
            IF ~x.valid THEN acc
            ELSE [valid |-> TRUE,
                  minX |-> JsMin(acc.minX, x.minX), minY |-> JsMin(acc.minY, x.minY),
                  maxX |-> JsMax(acc.maxX, x.maxX), maxY |-> JsMax(acc.maxY, x.maxY)]
    IN  IF i > Len(entities) THEN acc
        ELSE BBoxFold(entities, i + 1, Merged(EntityExtent(entities[i])))

\* valid = FALSE stands for the two throws: no valid entity, or a bound
\* still at its initial Infinity / -Infinity.
calculateBoundingBox(entities) ==
    LET Checked(box) ==
            IF ~box.valid THEN NoExtent
            ELSE IF box.minX = Infinity \/ box.minY = Infinity
                    \/ box.maxX = NegInfinity \/ box.maxY = NegInfinity
            THEN NoExtent
            ELSE box
    IN  Checked(BBoxFold(entities, 1, NoExtent))

FirstOfType(entities, types) ==
    LET idx == {i \in 1..Len(entities) : entities[i].type \in types}
    IN  IF idx = {} THEN 0 ELSE CHOOSE i \in idx : \A j \in idx : i <= j

extractSegments(entities) ==
    LET ArcSegment(points) ==
            [type |-> "ARC",
             startX |-> points[1].x, startY |-> points[1].y,
             endX |-> points[Len(points)].x, endY |-> points[Len(points)].y,
             points |-> points]
        segment(e) ==
            IF e.type = "LINE"
            THEN [type |-> "LINE", startX |-> e.x1, startY |-> e.y1, endX |-> e.x2, endY |-> e.y2,
                  points |-> <<Pt(e.x1, e.y1), Pt(e.x2, e.y2)>>]
            ELSE ArcSegment(generateArcPoints(e, 30))
        kept == {i \in 1..Len(entities) :
                    \/ entities[i].type = "LINE"
                    \/ entities[i].type = "ARC" /\ Len(generateArcPoints(entities[i], 30)) > 0}
        Pushed(order) == [k \in 1..Len(order) |-> segment(entities[order[k]])]
    IN  Pushed(Ascending(kept))

\* tolerance of orderSegments, in DXF units.
StitchTolerance == Q(1, 2)

\* Math.abs(a - b) < tolerance.
Near(a, b) == JsLt(RSub(a, b), StitchTolerance) /\ JsLt(RSub(b, a), StitchTolerance)

StartConnects(seg, currentEndX, currentEndY) ==
    Near(seg.startX, currentEndX) /\ Near(seg.startY, currentEndY)

EndConnects(seg, currentEndX, currentEndY) ==
    Near(seg.endX, currentEndX) /\ Near(seg.endY, currentEndY)

\* The copy with the end points swapped but the points left in their order.
ReversedSeg_PointsKept(seg) ==
    [seg EXCEPT !.startX = seg.endX, !.startY = seg.endY,
                !.endX = seg.startX, !.endY = seg.startY]

\* reversedSeg of orderSegments.
ReversedSeg(seg) ==
    [seg EXCEPT !.startX = seg.endX, !.startY = seg.endY,
                !.endX = seg.startX, !.endY = seg.startY,
                !.points = [k \in 1..Len(seg.points) |-> seg.points[Len(seg.points) + 1 - k]]]

\* The leftover loop forgotten: the unused segments are lost.
Leftovers_Dropped(segments, used) == <<>>

\* The leftover loop run from the last index down.
Leftovers_Descending(segments, used) ==
    LET order == Ascending((1..Len(segments)) \ used)
    IN  [k \in 1..Len(order) |-> segments[order[Len(order) + 1 - k]]]

\* The segments no match was found for, as the loop at the end appends them.
Leftovers(segments, used) ==
    LET order == Ascending((1..Len(segments)) \ used)
    IN  [k \in 1..Len(order) |-> segments[order[k]]]

\* The while loop of orderSegments.  Besides the ordered list the result
\* records, for each of its places, how the segment got there ("first",
\* "start", "end" or "leftover") and the index it had in the input.
RECURSIVE StitchLoop(_, _, _, _, _, _)
StitchLoop(segments, ordered, used, how, from, currentEnd) ==
    LET Rest(restFrom) ==
            [ordered |-> ordered \o Leftovers(segments, used),
             how |-> how \o [k \in 1..Len(Leftovers(segments, used)) |-> "leftover"],
             from |-> from \o [k \in 1..Len(Leftovers(segments, used)) |->
                                  IF k <= Len(restFrom) THEN restFrom[k] ELSE 0]]
        Push(i, forward, placed) ==
            StitchLoop(segments, Append(ordered, placed), used \cup {i},
                       Append(how, IF forward THEN "start" ELSE "end"),
                       Append(from, i), Pt(placed.endX, placed.endY))
        Place(i, forward) ==
            Push(i, forward, IF forward THEN segments[i] ELSE ReversedSeg(segments[i]))
        Search(found) ==
            IF found = {} THEN Rest(Ascending((1..Len(segments)) \ used))
            ELSE LET i == CHOOSE j \in found : \A k \in found : j <= k
                 IN  Place(i, StartConnects(segments[i], currentEnd.x, currentEnd.y))
    IN  IF Len(ordered) >= Len(segments)
        THEN [ordered |-> ordered, how |-> how, from |-> from]
        ELSE Search({i \in (1..Len(segments)) \ used :
                        \/ StartConnects(segments[i], currentEnd.x, currentEnd.y)
                        \/ EndConnects(segments[i], currentEnd.x, currentEnd.y)})

Stitch(segments) ==
    IF Len(segments) = 0 THEN [ordered |-> <<>>, how |-> <<>>, from |-> <<>>]
    ELSE IF Len(segments) = 1 THEN [ordered |-> segments, how |-> <<"first">>, from |-> <<1>>]
    ELSE StitchLoop(segments, <<segments[1]>>, {1}, <<"first">>, <<1>>,
                    Pt(segments[1].endX, segments[1].endY))

orderSegments(segments) == Stitch(segments).ordered

\* The point mirrored top to bottom.
Normalized_FlipY(p, bbox) ==
    Pt(RDiv(RSub(p.x, bbox.minX), RSub(bbox.maxX, bbox.minX)),
       RSub(R(1), RDiv(RSub(p.y, bbox.minY), RSub(bbox.maxY, bbox.minY))))

\* { x: (p.x - bbox.minX) / width, y: (p.y - bbox.minY) / height }
Normalized(p, bbox) ==
    Pt(RDiv(RSub(p.x, bbox.minX), RSub(bbox.maxX, bbox.minX)),
       RDiv(RSub(p.y, bbox.minY), RSub(bbox.maxY, bbox.minY)))

RECURSIVE SegmentPoints_Joined(_, _)
\* The points with the first point of every segment after the first left
\* out, as if the joints were merged.
SegmentPoints_Joined(orderedSegments, i) ==
    IF i > Len(orderedSegments) THEN <<>>
    ELSE (IF i = 1 THEN orderedSegments[i].points ELSE Tail(orderedSegments[i].points))
            \o SegmentPoints_Joined(orderedSegments, i + 1)

RECURSIVE SegmentPoints(_, _)
SegmentPoints(orderedSegments, i) ==
    IF i > Len(orderedSegments) THEN <<>>
    ELSE orderedSegments[i].points \o SegmentPoints(orderedSegments, i + 1)

\* Which of its branches extractContour takes.
ContourSource(entities) ==
    IF FirstOfType(entities, {"CIRCLE"}) # 0 THEN "CIRCLE"
    ELSE IF FirstOfType(entities, {"POLYLINE", "LWPOLYLINE"}) # 0 THEN "POLYLINE"
    ELSE "SEGMENTS"

\* The tessellation of a circle.  Of its 101 points the model keeps the five
\* at the quarter turns (steps 0, 25, 50, 75 and 100).
CirclePoints(circle, bbox) ==
    [i \in 1..5 |->
        Normalized(Pt(RAdd(circle.cx, RMul(circle.radius, QuarterCos[i])),
                      RAdd(circle.cy, RMul(circle.radius, QuarterSin[i]))), bbox)]

\* The vertices of a polyline, normalised.
PolylinePoints(polyline, bbox) ==
    [i \in 1..Len(polyline.vertices) |-> Normalized(polyline.vertices[i], bbox)]

\* The points of the stitched LINE and ARC segments, normalised.
StitchedPoints(entities, bbox) ==
    LET Pushed(points) == [i \in 1..Len(points) |-> Normalized(points[i], bbox)]
    IN  Pushed(SegmentPoints(orderSegments(extractSegments(entities)), 1))

BoxCorners == <<Pt(R(0), R(0)), Pt(R(1), R(0)), Pt(R(1), R(1)), Pt(R(0), R(1))>>

extractContour(entities, bbox) ==
    LET OrCorners(contourPoints) ==
            IF Len(contourPoints) = 0 THEN BoxCorners ELSE contourPoints
    IN  CASE ContourSource(entities) = "CIRCLE" /\ FirstOfType(entities, {"CIRCLE"}) # 0 ->
               CirclePoints(entities[FirstOfType(entities, {"CIRCLE"})], bbox)
          [] ContourSource(entities) = "POLYLINE"
                /\ FirstOfType(entities, {"POLYLINE", "LWPOLYLINE"}) # 0 ->
               PolylinePoints(entities[FirstOfType(entities, {"POLYLINE", "LWPOLYLINE"})], bbox)
          [] OTHER -> OrCorners(StitchedPoints(entities, bbox))

\* The circle painted at its DXF coordinates, the bounding box not subtracted.
createDrawingFunction_NoOrigin(entities, bbox) ==
    LET width == RSub(bbox.maxX, bbox.minX)
        height == RSub(bbox.maxY, bbox.minY)
        resolution == RASTERIZATION_RESOLUTION
        ci == FirstOfType(entities, {"CIRCLE"})
        arcs == IF ci = 0 THEN <<>>
                ELSE LET circle == entities[ci]
                     IN  <<[type |-> "circle",
                            cx |-> RMul(RDiv(circle.cx, width), R(resolution)),
                            cy |-> RMul(RDiv(circle.cy, height), R(resolution)),
                            r  |-> RMul(RDiv(circle.radius, width), R(resolution))]>>
    IN  [kind |-> "raster", image |-> arcs, resolution |-> resolution, scale |-> R(1)]

\* moveTo / lineTo through the points of a list, scaled to the canvas; a
\* call with a non-finite coordinate does nothing.
CanvasPath(points, bbox, resolution) ==
    LET scaled == [i \in 1..Len(points) |->
                      Pt(RMul(Normalized(points[i], bbox).x, R(resolution)),
                         RMul(Normalized(points[i], bbox).y, R(resolution)))]
        Finite(p) == IsNum(p.x) /\ IsNum(p.y)
    IN  [type |-> "polygon", points |-> SelectSeq(scaled, Finite)]

\* What the function paints black: the first CIRCLE, the closed polylines,
\* when there is no polyline the stitched LINE and ARC segments, and then
\* the ellipses (turned by 0 or pi, which leaves them as they are, and with
\* radii that are positive numbers) and the closed splines.  The
\* strokes, 2 pixels wide, are left out: they colour only pixels within one
\* pixel of an outline.
createDrawingFunction(entities, bbox) ==
    LET width == RSub(bbox.maxX, bbox.minX)
        height == RSub(bbox.maxY, bbox.minY)
        resolution == RASTERIZATION_RESOLUTION
        Arcs(ci) ==
            IF ci = 0 THEN <<>>
            ELSE IF IsNum(entities[ci].cx) /\ IsNum(entities[ci].cy) /\ IsNum(entities[ci].radius)
            THEN <<[type |-> "circle",
                    cx |-> RMul(RDiv(RSub(entities[ci].cx, bbox.minX), width), R(resolution)),
                    cy |-> RMul(RDiv(RSub(entities[ci].cy, bbox.minY), height), R(resolution)),
                    r  |-> RMul(RDiv(entities[ci].radius, width), R(resolution))]>>
            ELSE <<>>
        IsPolyline(e) == e.type \in {"POLYLINE", "LWPOLYLINE"}
        IsFilledPolyline(e) == IsPolyline(e) /\ Len(e.vertices) > 0 /\ e.closed
        hasPolylines == \E i \in 1..Len(entities) :
                           IsPolyline(entities[i]) /\ Len(entities[i].vertices) > 0
        Polygons(filled) ==
            [i \in 1..Len(filled) |-> CanvasPath(filled[i].vertices, bbox, resolution)]
        Outline(segments) ==
            IF Len(segments) > 0
            THEN <<CanvasPath(SegmentPoints(orderSegments(segments), 1), bbox, resolution)>>
            ELSE <<>>
        IsExtra(e) ==
            \/ e.type = "ELLIPSE"
            \/ e.type = "SPLINE" /\ e.closed /\ Len(e.controlPoints) > 0
        Extras(extra) ==
            [i \in 1..Len(extra) |->
               IF extra[i].type = "SPLINE"
               THEN CanvasPath(extra[i].controlPoints, bbox, resolution)
               ELSE [type |-> "ellipse",
                     cx |-> RMul(RDiv(RSub(extra[i].centerX, bbox.minX), width), R(resolution)),
                     cy |-> RMul(RDiv(RSub(extra[i].centerY, bbox.minY), height), R(resolution)),
                     rx |-> RMul(RDiv(extra[i].majorAxisLength, width), R(resolution)),
                     ry |-> RMul(RDiv(extra[i].minorAxisLength, height), R(resolution))]]
    IN  [kind |-> "raster",
         image |-> Arcs(FirstOfType(entities, {"CIRCLE"}))
                      \o Polygons(SelectSeq(entities, IsFilledPolyline))
                      \o Outline(IF hasPolylines THEN <<>> ELSE extractSegments(entities))
                      \o Extras(SelectSeq(entities, IsExtra)),
         resolution |-> resolution, scale |-> R(1)]

----------------------------------------------------------------------------
(* The DXF text parser.  A text is the array `lines` that parseDXF makes   *)
(* of it (split at line ends, trimmed); lines[i] of the JavaScript array   *)
(* is At(lines, i).  A parser that returns null returns <<>> here, one     *)
(* that returns an entity returns the list of that entity.                 *)

\* A variable that was never assigned.
Undefined == <<3, 0>>

Digits == <<"0", "1", "2", "3", "4", "5", "6", "7", "8", "9">>
IsDigit(c) == \E d \in 1..10 : Digits[d] = c
DigitValue(c) == (CHOOSE d \in 1..10 : Digits[d] = c) - 1

\* The i-th character of a string (from 1), "" beyond its end.
Char(str, i) == IF i >= 1 /\ i <= Len(str) THEN SubSeq(str, i, i) ELSE ""

RECURSIVE DigitsEnd(_, _)
\* The first position from i on that holds no digit.
DigitsEnd(str, i) == IF IsDigit(Char(str, i)) THEN DigitsEnd(str, i + 1) ELSE i

RECURSIVE Decimal(_, _, _, _)
\* The digits str[i..j-1] read as a decimal numeral after the digits in acc.
Decimal(str, i, j, acc) ==
    IF i >= j THEN acc ELSE Decimal(str, i + 1, j, 10 * acc + DigitValue(Char(str, i)))

RECURSIVE Pow10(_)
Pow10(n) == IF n = 0 THEN 1 ELSE 10 * Pow10(n - 1)

\* parseFloat of a string without leading white space: the longest prefix
\* that is a decimal literal (sign, digits, fraction, exponent) or
\* Infinity; NaN when there is none.
parseFloat(str) ==
    LET Scaled(mantissa, exponent) ==
            IF exponent >= 0 THEN Overflow(RMul(mantissa, R(Pow10(exponent))))
            ELSE RDiv(mantissa, R(Pow10(-exponent)))
        Signed(negative, magnitude) ==
            IF negative /\ IsNum(magnitude) THEN RSub(R(0), magnitude)
            ELSE IF negative /\ magnitude = Infinity THEN NegInfinity
            ELSE magnitude
        Exponent(e, negative) ==
            IF Char(str, e) \notin {"e", "E"} THEN 0
            ELSE IF Char(str, e + 1) \in {"-", "+"}
            THEN (IF Char(str, e + 1) = "-" THEN -1 ELSE 1)
                    * Decimal(str, e + 2, DigitsEnd(str, e + 2), 0)
            ELSE Decimal(str, e + 1, DigitsEnd(str, e + 1), 0)
        Fraction(p, intEnd, fracEnd) ==
            IF intEnd = p /\ fracEnd <= intEnd + 1 THEN NaN
            ELSE Scaled(Q(Decimal(str, intEnd + 1, fracEnd, Decimal(str, p, intEnd, 0)),
                          Pow10(IMax(fracEnd - intEnd - 1, 0))),
                        Exponent(fracEnd, FALSE))
        Integral(p, intEnd) ==
            IF SubSeq(str, p, IF p + 7 <= Len(str) THEN p + 7 ELSE p - 1) = "Infinity"
            THEN Infinity
            ELSE Fraction(p, intEnd,
                          IF Char(str, intEnd) = "." THEN DigitsEnd(str, intEnd + 1) ELSE intEnd)
        Unsigned(p) == Integral(p, DigitsEnd(str, p))
    IN  IF Char(str, 1) \in {"-", "+"}
        THEN Signed(Char(str, 1) = "-", Unsigned(2))
        ELSE Unsigned(1)

\* parseInt(str, 10): the longest prefix that is a signed decimal integer.
parseInt(str) ==
    LET Unsigned(p) ==
            IF DigitsEnd(str, p) = p THEN NaN
            ELSE R(Decimal(str, p, DigitsEnd(str, p), 0))
    IN  IF Char(str, 1) = "-" THEN (IF IsNum(Unsigned(2)) THEN RSub(R(0), Unsigned(2)) ELSE NaN)
        ELSE IF Char(str, 1) = "+" THEN Unsigned(2)
        ELSE Unsigned(1)

\* (flags & 1) !== 0: NaN is 0 under the bit operators.
Bit0(flags) == IsNum(flags) /\ flags[1] % 2 = 1

At(lines, i) == IF i >= 0 /\ i < Len(lines) THEN lines[i + 1] ELSE "undefined"

RECURSIVE LastValue(_, _, _, _)
\* The loop of parseDXFLine, parseDXFCircle, parseDXFArc and
\* parseDXFEllipse for the variable that group code `code` is assigned to:
\* from index i to the next group code 0 or to the end of the text.
LastValue(lines, i, code, found) ==
    IF i >= Len(lines) \/ At(lines, i) = "0" THEN found
    ELSE LastValue(lines, i + 2, code,
                   IF At(lines, i) = code THEN parseFloat(At(lines, i + 1)) ELSE found)

GroupValue(lines, startIndex, code) == LastValue(lines, startIndex + 2, code, Undefined)

parseDXFLine(lines, startIndex) ==
    LET Made(x1, y1, x2, y2) ==
            IF x1 # Undefined /\ y1 # Undefined /\ x2 # Undefined /\ y2 # Undefined
            THEN <<Line(x1, y1, x2, y2)>> ELSE <<>>
    IN  Made(GroupValue(lines, startIndex, "10"), GroupValue(lines, startIndex, "20"),
             GroupValue(lines, startIndex, "11"), GroupValue(lines, startIndex, "21"))

parseDXFCircle(lines, startIndex) ==
    LET Made(cx, cy, radius) ==
            IF cx # Undefined /\ cy # Undefined /\ radius # Undefined
            THEN <<Circle(cx, cy, radius)>> ELSE <<>>
    IN  Made(GroupValue(lines, startIndex, "10"), GroupValue(lines, startIndex, "20"),
             GroupValue(lines, startIndex, "40"))

parseDXFArc(lines, startIndex) ==
    LET Made(cx, cy, radius, startAngle, endAngle) ==
            IF /\ cx # Undefined /\ cy # Undefined /\ radius # Undefined
               /\ startAngle # Undefined /\ endAngle # Undefined
            THEN <<Arc(cx, cy, radius, startAngle, endAngle)>> ELSE <<>>
    IN  Made(GroupValue(lines, startIndex, "10"), GroupValue(lines, startIndex, "20"),
             GroupValue(lines, startIndex, "40"), GroupValue(lines, startIndex, "50"),
             GroupValue(lines, startIndex, "51"))

\* Math.sqrt of a number whose root is rational (NaN for NaN and for
\* negative numbers).
Sqrt(a) ==
    IF ~IsNum(a) \/ a[1] < 0 THEN NaN
    ELSE Q(CHOOSE k \in 0..a[1] : k * k = a[1], CHOOSE k \in 1..a[2] : k * k = a[2])

\* The ellipses of the documents have their major axis along the x axis,
\* so that Math.atan2(majorAxisY, majorAxisX) is 0 (axis pointing right)
\* or pi (pointing left); the angle is kept in half turns.
parseDXFEllipse(lines, startIndex) ==
    LET Made(centerX, centerY, majorAxisX, majorAxisY, ratio) ==
            IF /\ centerX # Undefined /\ centerY # Undefined /\ majorAxisX # Undefined
               /\ majorAxisY # Undefined /\ ratio # Undefined
            THEN <<[type |-> "ELLIPSE", centerX |-> centerX, centerY |-> centerY,
                    majorAxisLength |->
                        Sqrt(RAdd(RMul(majorAxisX, majorAxisX), RMul(majorAxisY, majorAxisY))),
                    minorAxisLength |->
                        RMul(Sqrt(RAdd(RMul(majorAxisX, majorAxisX), RMul(majorAxisY, majorAxisY))),
                             ratio),
                    rotation |-> CASE majorAxisY = R(0) /\ RGt(majorAxisX, R(0)) -> R(0)
                                   [] majorAxisY = R(0) /\ RLt(majorAxisX, R(0)) -> R(1)]>>
            ELSE <<>>
    IN  Made(GroupValue(lines, startIndex, "10"), GroupValue(lines, startIndex, "20"),
             GroupValue(lines, startIndex, "11"), GroupValue(lines, startIndex, "21"),
             GroupValue(lines, startIndex, "40"))

\* currentVertex = {} and the test that both of its coordinates are set.
NoVertex == Pt(Undefined, Undefined)
HasBoth(currentVertex) == currentVertex.x # Undefined /\ currentVertex.y # Undefined

\* "if (currentVertex has x and y) { vertices.push({...currentVertex});
\* currentVertex = {}; }" without the second statement.
VertexEnd_NoReset(vertices, currentVertex) ==
    IF HasBoth(currentVertex)
    THEN [vertices |-> Append(vertices, currentVertex), currentVertex |-> currentVertex]
    ELSE [vertices |-> vertices, currentVertex |-> currentVertex]

\* "if (currentVertex has x and y) { vertices.push({...currentVertex});
\* currentVertex = {}; }": the list and the vertex under construction after it.
VertexEnd(vertices, currentVertex) ==
    IF HasBoth(currentVertex)
    THEN [vertices |-> Append(vertices, currentVertex), currentVertex |-> NoVertex]
    ELSE [vertices |-> vertices, currentVertex |-> currentVertex]

\* The statements after either loop: the last vertex is pushed when it is
\* complete, and the entity is returned when it has a vertex.
PolylineResult(entityType, st, closed) ==
    LET Made(vertices) ==
            IF Len(vertices) > 0 THEN <<Polyline(entityType, vertices, closed)>> ELSE <<>>
    IN  Made(IF HasBoth(st.currentVertex) THEN Append(st.vertices, st.currentVertex)
             ELSE st.vertices)

RECURSIVE LwPolylineLoop(_, _, _, _, _)
\* The loop of the LWPOLYLINE branch from index i.
LwPolylineLoop(lines, i, vertices, currentVertex, closed) ==
    LET code == At(lines, i)
        value == At(lines, i + 1)
    IN  IF i >= Len(lines)
        THEN PolylineResult("LWPOLYLINE", [vertices |-> vertices, currentVertex |-> currentVertex],
                            closed)
        ELSE IF code = "0"
        THEN PolylineResult("LWPOLYLINE", VertexEnd(vertices, currentVertex), closed)
        ELSE IF code = "10"
        THEN LwPolylineLoop(lines, i + 2,
                            IF HasBoth(currentVertex) THEN Append(vertices, currentVertex)
                            ELSE vertices,
                            Pt(parseFloat(value), Undefined), closed)
        ELSE IF code = "20" /\ currentVertex.x # Undefined
        THEN LwPolylineLoop(lines, i + 2, vertices,
                            Pt(currentVertex.x, parseFloat(value)), closed)
        ELSE IF code = "70"
        THEN LwPolylineLoop(lines, i + 2, vertices, currentVertex, Bit0(parseInt(value)))
        ELSE LwPolylineLoop(lines, i + 2, vertices, currentVertex, closed)

RECURSIVE PolylineLoop(_, _, _, _)
\* The loop of the POLYLINE branch from index i; st is the list and the
\* vertex under construction.
PolylineLoop(lines, i, st, closed) ==
    LET code == At(lines, i)
        value == At(lines, i + 1)
    IN  IF i >= Len(lines) THEN PolylineResult("POLYLINE", st, closed)
        ELSE IF code = "0" /\ value = "SEQEND"
        THEN PolylineResult("POLYLINE", VertexEnd(st.vertices, st.currentVertex), closed)
        ELSE IF code = "0" /\ value = "VERTEX"
        THEN PolylineLoop(lines, i + 2, VertexEnd(st.vertices, st.currentVertex), closed)
        ELSE IF code = "0" THEN PolylineResult("POLYLINE", st, closed)
        ELSE IF code = "10"
        THEN PolylineLoop(lines, i + 2,
                          [st EXCEPT !.currentVertex = Pt(parseFloat(value), @.y)], closed)
        ELSE IF code = "20"
        THEN PolylineLoop(lines, i + 2,
                          [st EXCEPT !.currentVertex = Pt(@.x, parseFloat(value))], closed)
        ELSE IF code = "70"
        THEN PolylineLoop(lines, i + 2, st, closed \/ Bit0(parseInt(value)))
        ELSE PolylineLoop(lines, i + 2, st, closed)

parseDXFPolyline(lines, startIndex, entityType) ==
    IF entityType = "LWPOLYLINE"
    THEN LwPolylineLoop(lines, startIndex + 2, <<>>, NoVertex, FALSE)
    ELSE PolylineLoop(lines, startIndex + 2, [vertices |-> <<>>, currentVertex |-> NoVertex], FALSE)

RECURSIVE SplineLoop(_, _, _, _, _)
\* The loop of parseDXFSpline from index i and the statements after it.
\* inControlPoints is true exactly when a group code 10 has been read, that
\* is when currentPoint has an x.
SplineLoop(lines, i, controlPoints, currentPoint, closed) ==
    LET code == At(lines, i)
        value == At(lines, i + 1)
        Made(points) ==
            IF Len(points) > 0
            THEN <<[type |-> "SPLINE", controlPoints |-> points, closed |-> closed]>>
            ELSE <<>>
        Pushed == IF HasBoth(currentPoint) THEN Append(controlPoints, currentPoint)
                  ELSE controlPoints
    IN  IF i >= Len(lines) THEN Made(Pushed)
        ELSE IF code = "0" /\ value \in {"ENDSEC", "LINE", "CIRCLE", "ARC", "POLYLINE",
                                        "LWPOLYLINE", "ELLIPSE"}
        THEN Made(Pushed)
        ELSE IF code = "0" /\ value = "SPLINE"
        THEN SplineLoop(lines, i + 2, Pushed,
                        IF HasBoth(currentPoint) THEN NoVertex ELSE currentPoint, closed)
        ELSE IF code = "10"
        THEN SplineLoop(lines, i + 2, Pushed, Pt(parseFloat(value), Undefined), closed)
        ELSE IF code = "20" /\ (currentPoint.x # Undefined \/ Len(controlPoints) > 0)
        THEN SplineLoop(lines, i + 2, controlPoints, Pt(currentPoint.x, parseFloat(value)), closed)
        ELSE IF code = "70"
        THEN SplineLoop(lines, i + 2, controlPoints, currentPoint, Bit0(parseInt(value)))
        ELSE SplineLoop(lines, i + 2, controlPoints, currentPoint, closed)

\* parseDXFSpline: inControlPoints, set by the first group code 10 and
\* never cleared, is carried by SplineLoop as "currentPoint has an x or a
\* point has been pushed".
parseDXFSpline(lines, startIndex) == SplineLoop(lines, startIndex + 2, <<>>, NoVertex, FALSE)

\* The chain of tests on the value of a group code 0 inside the section.
ParseEntity(lines, i, value) ==
    CASE value = "LINE" -> parseDXFLine(lines, i)
      [] value = "CIRCLE" -> parseDXFCircle(lines, i)
      [] value = "ARC" -> parseDXFArc(lines, i)
      [] value \in {"POLYLINE", "LWPOLYLINE"} -> parseDXFPolyline(lines, i, value)
      [] value = "ELLIPSE" -> parseDXFEllipse(lines, i)
      [] value = "SPLINE" -> parseDXFSpline(lines, i)
      [] OTHER -> <<>>

RECURSIVE ParseLoop(_, _, _, _)
\* The loop of parseDXF from index i.
ParseLoop(lines, i, inEntitiesSection, entities) ==
    LET code == At(lines, i)
        value == At(lines, i + 1)
        isSection == code = "0" /\ value = "SECTION"
    IN  IF i >= Len(lines) THEN entities
        ELSE IF isSection /\ i + 2 < Len(lines)
                /\ At(lines, i + 2) = "2" /\ At(lines, i + 3) = "ENTITIES"
        THEN ParseLoop(lines, i + 4, TRUE, entities)
        ELSE IF inEntitiesSection /\ code = "0" /\ value = "ENDSEC" THEN entities
        ELSE ParseLoop(lines, (IF isSection THEN i + 2 ELSE i) + 2, inEntitiesSection,
                       IF inEntitiesSection /\ code = "0" /\ ~isSection
                       THEN entities \o ParseEntity(lines, i, value)
                       ELSE entities)

\* parseDXF that takes the whole text for the ENTITIES section.
parseDXF_AnySection(lines) == [entities |-> ParseLoop(lines, 0, TRUE, <<>>)]

parseDXF(lines) == [entities |-> ParseLoop(lines, 0, FALSE, <<>>)]

\* loadDXF once the bounding box of the entities is known: the tests of
\* the box, then the contour and the fill predicate.
DxfBoxed(entities, bbox) ==
    IF ~bbox.valid THEN Thrown
    ELSE IF ~IsNum(bbox.minX) \/ ~IsNum(bbox.minY) \/ ~IsNum(bbox.maxX) \/ ~IsNum(bbox.maxY)
    THEN Thrown
    ELSE IF RLe(RSub(bbox.maxX, bbox.minX), R(0)) \/ RLe(RSub(bbox.maxY, bbox.minY), R(0))
            \/ ~IsNum(Overflow(RSub(bbox.maxX, bbox.minX)))
            \/ ~IsNum(Overflow(RSub(bbox.maxY, bbox.minY)))
    THEN Thrown
    ELSE [ok |-> TRUE,
          contour |-> extractContour(entities, bbox),
          drawingFunction |-> createDrawingFunction(entities, bbox),
          width |-> RSub(bbox.maxX, bbox.minX), height |-> RSub(bbox.maxY, bbox.minY)]

\* loadDXF once the text is parsed into entities.
DxfParsed(entities) ==
    IF Len(entities) = 0 THEN Thrown
    ELSE DxfBoxed(entities, calculateBoundingBox(entities))

\* loadDXF without its test of the width and the height.
loadDXF_NoExtentTest(file) ==
    LET WithBox(entities, bbox) ==
            IF ~bbox.valid THEN Thrown
            ELSE [ok |-> TRUE,
                  contour |-> extractContour(entities, bbox),
                  drawingFunction |-> EmptyDrawing,
                  width |-> RSub(bbox.maxX, bbox.minX), height |-> RSub(bbox.maxY, bbox.minY)]
        Parsed(entities) ==
            IF Len(entities) = 0 THEN Thrown
            ELSE WithBox(entities, calculateBoundingBox(entities))
    IN  Parsed(IF Len(file.text) > 0 THEN parseDXF(file.text).entities ELSE file.entities)

loadDXF(file) ==
    DxfParsed(IF Len(file.text) > 0 THEN parseDXF(file.text).entities ELSE file.entities)

----------------------------------------------------------------------------
(* The SVG loader.  An attribute that is absent reads as "": null and the  *)
(* empty string are told apart nowhere in the loader.                      *)

getAttribute(el, name) == IF name \in DOMAIN el THEN el[name] ELSE ""

WhiteSpace == {" ", "\t", "\n"}

RECURSIVE SkipWhile(_, _, _)
\* The first position from i on whose character is not in the set.
SkipWhile(str, i, chars) ==
    IF i <= Len(str) /\ Char(str, i) \in chars THEN SkipWhile(str, i + 1, chars) ELSE i

RECURSIVE Split(_, _, _, _)
\* str.split(/[chars]+/) from position i, the piece under way starting at
\* position from: the pieces between the runs of separators, an empty piece
\* before a leading and after a trailing run.
Split(str, i, from, chars) ==
    IF i > Len(str) THEN <<SubSeq(str, from, Len(str))>>
    ELSE IF Char(str, i) \in chars
    THEN <<SubSeq(str, from, i - 1)>>
            \o Split(str, SkipWhile(str, i, chars), SkipWhile(str, i, chars), chars)
    ELSE Split(str, i + 1, from, chars)

RECURSIVE DigitsAndDots(_, _)
\* str.replace(/[^\d.]/g, '') from position i.
DigitsAndDots(str, i) ==
    IF i > Len(str) THEN ""
    ELSE (IF IsDigit(Char(str, i)) \/ Char(str, i) = "." THEN Char(str, i) ELSE "")
            \o DigitsAndDots(str, i + 1)

\* parseFloat((svg.getAttribute(name) || '100').replace(/[^\d.]/g, ''))
SizeAttribute(svg, name) ==
    parseFloat(DigitsAndDots(IF getAttribute(svg, name) = "" THEN "100"
                             ELSE getAttribute(svg, name), 1))

\* svgMinX, svgMinY, svgWidth and svgHeight of loadSVG; a number of the
\* viewBox that is missing is undefined.
DocumentSize(svg) ==
    LET Numbers(pieces) ==
            [k \in 1..4 |-> IF k <= Len(pieces) THEN parseFloat(pieces[k]) ELSE Undefined]
    IN  IF getAttribute(svg, "viewBox") # ""
        THEN Numbers(Split(getAttribute(svg, "viewBox"), 1, 1, WhiteSpace))
        ELSE <<R(0), R(0), SizeAttribute(svg, "width"), SizeAttribute(svg, "height")>>

\* The letters at which d.match(...) starts a new command.
CommandLetters ==
    {"M", "m", "L", "l", "H", "h", "V", "v", "C", "c", "S", "s", "Q", "q", "T", "t",
     "A", "a", "Z", "z"}

RECURSIVE TrimEnd(_, _)
\* The position of the last character that trim() keeps, 0 if there is none.
TrimEnd(str, n) == IF n >= 1 /\ Char(str, n) \in WhiteSpace THEN TrimEnd(str, n - 1) ELSE n

\* cmd.slice(1).trim().split(/[\s,]+/).map(parseFloat).filter(n => !isNaN(n))
\* for the text of a command after its letter.
PathCoords(text) ==
    LET IsNumber(n) == n # NaN
        Numbers(pieces) == [k \in 1..Len(pieces) |-> parseFloat(pieces[k])]
    IN  SelectSeq(Numbers(Split(SubSeq(text, SkipWhile(text, 1, WhiteSpace),
                                       TrimEnd(text, Len(text))),
                                1, 1, WhiteSpace \cup {","})),
                  IsNumber)

RECURSIVE CommandEnd(_, _)
\* The position of the next command letter from i on, or the end of d.
CommandEnd(d, i) ==
    IF i > Len(d) \/ Char(d, i) \in CommandLetters THEN i ELSE CommandEnd(d, i + 1)

RECURSIVE PathCommands(_, _)
\* d.match(/[MmLl...Zz][^MmLl...Zz]*/g) from position i, each command as its
\* letter and its coordinates.
PathCommands(d, i) ==
    IF CommandEnd(d, i) > Len(d) THEN <<>>
    ELSE <<[type |-> Char(d, CommandEnd(d, i)),
            coords |-> PathCoords(SubSeq(d, CommandEnd(d, i) + 1,
                                         CommandEnd(d, CommandEnd(d, i) + 1) - 1))]>>
            \o PathCommands(d, CommandEnd(d, CommandEnd(d, i) + 1))

BEZIER_STEPS == 20

\* cubicBezier(p0, p1, p2, p3, t) at t = k / BEZIER_STEPS, the four weights
\* taken over their common denominator BEZIER_STEPS^3.
cubicBezier(p0, p1, p2, p3, k) ==
    LET mt == BEZIER_STEPS - k
    IN  RDiv(RAdd(RAdd(RMul(R(mt * mt * mt), p0), RMul(R(3 * mt * mt * k), p1)),
                  RAdd(RMul(R(3 * mt * k * k), p2), RMul(R(k * k * k), p3))),
             R(BEZIER_STEPS * BEZIER_STEPS * BEZIER_STEPS))

\* quadraticBezier(p0, p1, p2, t) at t = k / BEZIER_STEPS.
quadraticBezier(p0, p1, p2, k) ==
    LET mt == BEZIER_STEPS - k
    IN  RDiv(RAdd(RAdd(RMul(R(mt * mt), p0), RMul(R(2 * mt * k), p1)), RMul(R(k * k), p2)),
             R(BEZIER_STEPS * BEZIER_STEPS))

\* coords[i] of the JavaScript array.
Coord(coords, i) == IF i < Len(coords) THEN coords[i + 1] ELSE Undefined

\* A coordinate of a command that is always read as absolute.
Offset_Absolute(relative, current, value) == value

\* "type === 'L' ? coords[i] : currentX + coords[i]": a coordinate of an
\* uppercase command, and of a lowercase one.
Offset(relative, current, value) == IF relative THEN RAdd(current, value) ELSE value

\* Z that adds its closing point without looking at the current point.
ClosePath_Always(st) ==
    [st EXCEPT !.points = Append(@, Pt(st.startX, st.startY)),
               !.currentX = st.startX, !.currentY = st.startY]

\* The branch of Z and z.  The state of the walk: current point, start of
\* the subpath, last control point, and the points handed to addPoint.
ClosePath(st) ==
    [st EXCEPT !.points = IF st.currentX # st.startX \/ st.currentY # st.startY
                          THEN Append(@, Pt(st.startX, st.startY)) ELSE @,
               !.currentX = st.startX, !.currentY = st.startY]

\* Coordinates that one pass of a command's loop takes.
SegmentStride(type) ==
    CASE type \in {"L", "l", "T", "t"} -> 2
      [] type \in {"H", "h", "V", "v"} -> 1
      [] type \in {"C", "c"} -> 6
      [] type \in {"S", "s", "Q", "q"} -> 4
      [] type \in {"A", "a"} -> 7

\* One pass of the loop of a command other than M and Z, from coords[i].
PathSegment(st, type, lastCommand, coords, i) ==
    LET relative == type \in {"l", "h", "v", "c", "s", "q", "t", "a"}
        X(k) == Offset(relative, st.currentX, Coord(coords, i + k))
        Y(k) == Offset(relative, st.currentY, Coord(coords, i + k))
        Reflected(family) ==
            IF lastCommand \in family
            THEN Pt(RSub(RMul(R(2), st.currentX), st.lastControlX),
                    RSub(RMul(R(2), st.currentY), st.lastControlY))
            ELSE Pt(st.currentX, st.currentY)
        LineTo(x, y) ==
            [st EXCEPT !.currentX = x, !.currentY = y, !.points = Append(@, Pt(x, y))]
        Cubic(c1, c2, end) ==
            [st EXCEPT !.points = @ \o [k \in 1..BEZIER_STEPS |->
                                          Pt(cubicBezier(st.currentX, c1.x, c2.x, end.x, k),
                                             cubicBezier(st.currentY, c1.y, c2.y, end.y, k))],
                       !.lastControlX = c2.x, !.lastControlY = c2.y,
                       !.currentX = end.x, !.currentY = end.y]
        Quadratic(c1, end) ==
            [st EXCEPT !.points = @ \o [k \in 1..BEZIER_STEPS |->
                                          Pt(quadraticBezier(st.currentX, c1.x, end.x, k),
                                             quadraticBezier(st.currentY, c1.y, end.y, k))],
                       !.lastControlX = c1.x, !.lastControlY = c1.y,
                       !.currentX = end.x, !.currentY = end.y]
        Chord(end) ==
            [st EXCEPT !.points = @ \o [k \in 1..BEZIER_STEPS |->
                                          Pt(RAdd(st.currentX,
                                                  RMul(RSub(end.x, st.currentX), Q(k, BEZIER_STEPS))),
                                             RAdd(st.currentY,
                                                  RMul(RSub(end.y, st.currentY), Q(k, BEZIER_STEPS))))],
                       !.currentX = end.x, !.currentY = end.y]
    IN  CASE type \in {"L", "l"} -> LineTo(X(0), Y(1))
          [] type \in {"H", "h"} -> LineTo(X(0), st.currentY)
          [] type \in {"V", "v"} -> LineTo(st.currentX, Y(0))
          [] type \in {"C", "c"} -> Cubic(Pt(X(0), Y(1)), Pt(X(2), Y(3)), Pt(X(4), Y(5)))
          [] type \in {"S", "s"} -> Cubic(Reflected({"C", "c", "S", "s"}), Pt(X(0), Y(1)), Pt(X(2), Y(3)))
          [] type \in {"Q", "q"} -> Quadratic(Pt(X(0), Y(1)), Pt(X(2), Y(3)))
          [] type \in {"T", "t"} -> Quadratic(Reflected({"Q", "q", "T", "t"}), Pt(X(0), Y(1)))
          [] type \in {"A", "a"} -> Chord(Pt(X(5), Y(6)))

RECURSIVE SegmentsTo(_, _, _, _)
\* The state after the first n passes of the loop of command cmd.
SegmentsTo(st, cmd, lastCommand, n) ==
    IF n = 0 THEN st
    ELSE PathSegment(SegmentsTo(st, cmd, lastCommand, n - 1), cmd.type, lastCommand,
                     cmd.coords, (n - 1) * SegmentStride(cmd.type))

\* The passes that "for (i = 0; i < coords.length; i += stride)" makes.
SegmentCount(cmd) ==
    (Len(cmd.coords) + SegmentStride(cmd.type) - 1) \div SegmentStride(cmd.type)

\* The body of commands.forEach for one command.
PathCommand(st, cmd, lastCommand) ==
    LET MoveTo(x, y) ==
            [st EXCEPT !.currentX = x, !.currentY = y, !.startX = x, !.startY = y,
                       !.points = Append(@, Pt(x, y))]
    IN  CASE cmd.type \in {"M", "m"} ->
               MoveTo(Offset(cmd.type = "m", st.currentX, Coord(cmd.coords, 0)),
                      Offset(cmd.type = "m", st.currentY, Coord(cmd.coords, 1)))
          [] cmd.type \in {"Z", "z"} -> ClosePath(st)
          [] OTHER -> SegmentsTo(st, cmd, lastCommand, SegmentCount(cmd))

RECURSIVE Walk(_, _)
\* The state of the walk after the first n commands.
Walk(commands, n) ==
    IF n = 0
    THEN [currentX |-> R(0), currentY |-> R(0), startX |-> R(0), startY |-> R(0),
          lastControlX |-> R(0), lastControlY |-> R(0), points |-> <<>>]
    ELSE PathCommand(Walk(commands, n - 1), commands[n],
                     IF n = 1 THEN "" ELSE commands[n - 1].type)

\* The contour of the first drawable element; <<>> stands for null.  The
\* points of a path are normalised here, after the walk, as addPoint does
\* when it is handed them.
extractContourFromPath(el, svgWidth, svgHeight, minX, minY) ==
    IF el.tag = "path"
    THEN LET Added(points) ==
                 [k \in 1..Len(points) |->
                    Pt(RDiv(RSub(points[k].x, minX), svgWidth),
                       RDiv(RSub(points[k].y, minY), svgHeight))]
             Walked(commands) == Added(Walk(commands, Len(commands)).points)
         IN  Walked(PathCommands(getAttribute(el, "d"), 1))
    ELSE IF el.tag = "rect"
    THEN <<Pt(RDiv(RSub(el.x, minX), svgWidth), RDiv(RSub(el.y, minY), svgHeight)),
           Pt(RDiv(RSub(RAdd(el.x, el.w), minX), svgWidth), RDiv(RSub(el.y, minY), svgHeight)),
           Pt(RDiv(RSub(RAdd(el.x, el.w), minX), svgWidth), RDiv(RSub(RAdd(el.y, el.h), minY), svgHeight)),
           Pt(RDiv(RSub(el.x, minX), svgWidth), RDiv(RSub(RAdd(el.y, el.h), minY), svgHeight))>>
    ELSE <<>>

\* drawImage(img, 0, 0, resolution, resolution): every element of the SVG
\* that is filled, stretched onto the canvas from file.viewBox, the box of
\* user space that the browser shows.
SvgImage(file, resolution) ==
    LET vb == file.viewBox
        IsPainted(el) == getAttribute(el, "fill") # "none"
        painted == SelectSeq(file.elements, IsPainted)
    IN  [i \in 1..Len(painted) |->
           LET el == painted[i]
           IN  [type |-> "box",
                x0 |-> RMul(RDiv(RSub(el.x, vb[1]), vb[3]), R(resolution)),
                y0 |-> RMul(RDiv(RSub(el.y, vb[2]), vb[4]), R(resolution)),
                x1 |-> RMul(RDiv(RSub(RAdd(el.x, el.w), vb[1]), vb[3]), R(resolution)),
                y1 |-> RMul(RDiv(RSub(RAdd(el.y, el.h), vb[2]), vb[4]), R(resolution))]]

loadSVG(file) ==
    LET resolution == SVG_RESOLUTION
        Sized(size) ==
            [ok |-> TRUE,
             contour |-> extractContourFromPath(file.elements[1], size[3], size[4], size[1], size[2]),
             drawingFunction |-> [kind |-> "raster", image |-> SvgImage(file, resolution),
                                  resolution |-> resolution, scale |-> R(1)],
             width |-> size[3], height |-> size[4]]
    IN  IF file.parsererror THEN Thrown
        ELSE IF Len(file.elements) = 0 THEN Thrown
        ELSE Sized(DocumentSize(file.attributes))

----------------------------------------------------------------------------
(* The application object.  Fields hold what the JavaScript fields hold;  *)
(* a null contour is <<>>, a null file type or name is "null", a null      *)
(* hovered row is -1.                                                      *)

\* Values of the constants the constructor reads, chosen small enough for
\* the grid to be enumerated cell by cell.
DEFAULT_WORKSPACE_WIDTH_MM == R(40)
DEFAULT_WORKSPACE_HEIGHT_MM == R(40)
DEFAULT_PIXEL_WIDTH_MM == R(10)
DEFAULT_PIXEL_HEIGHT_MM == R(10)
DEFAULT_FILL_THRESHOLD == Q(1, 4)

\* The element that holds the canvas.
Container == [clientWidth |-> R(800), clientHeight |-> R(800)]

NoBead == [row |-> -1, col |-> -1]

setupCanvas(s) ==
    LET ratio == RDiv(s.workspaceWidthMM, s.workspaceHeightMM)
        aspectRatio == IF Truthy(ratio) THEN ratio ELSE R(1)
        width0 == Container.clientWidth
        height0 == RDiv(width0, aspectRatio)
        height == IF RGt(height0, Container.clientHeight) THEN Container.clientHeight ELSE height0
        width == IF RGt(height0, Container.clientHeight) THEN RMul(height, aspectRatio) ELSE width0
    IN  [s EXCEPT !.currentCanvasWidth = width, !.currentCanvasHeight = height]

createOriginalDrawing(s) ==
    [s EXCEPT !.originalContour = <<>>, !.contour = <<>>,
              !.fileWidthMM = Null, !.fileHeightMM = Null,
              !.originalFileWidthMM = Null, !.originalFileHeightMM = Null,
              !.loadedFileName = "null", !.fileType = "null",
              !.hasLoadedFile = FALSE, !.scale = R(1),
              !.originalDrawingFunction = EmptyDrawing, !.originalDrawing = EmptyDrawing]

\* The fields the constructors assign, before createOriginalDrawing and setupCanvas.
Fields(cls, workspaceWidthMM, workspaceHeightMM, pixelWidthMM, pixelHeightMM, fillThreshold) ==
    [cls |-> cls,
     workspaceWidthMM |-> workspaceWidthMM, workspaceHeightMM |-> workspaceHeightMM,
     pixelWidthMM |-> pixelWidthMM, pixelHeightMM |-> pixelHeightMM,
     gridType |-> "peyote", gridOffsetX |-> R(0), gridOffsetY |-> R(0),
     scale |-> R(1), fillThreshold |-> fillThreshold,
     fileType |-> "null", hasLoadedFile |-> FALSE,
     fileWidthMM |-> Null, fileHeightMM |-> Null,
     originalFileWidthMM |-> Null, originalFileHeightMM |-> Null,
     loadedFileName |-> "null",
     originalContour |-> <<>>, originalDrawingFunction |-> EmptyDrawing,
     contour |-> <<>>, originalDrawing |-> EmptyDrawing,
     hoveredRow |-> -1, hoveredBead |-> NoBead,
     isAutoLoading |-> FALSE, loadedFileData |-> "null", loadedFileExtension |-> "null",
     currentCanvasWidth |-> Null, currentCanvasHeight |-> Null]

BeadingStudio ==
    setupCanvas(createOriginalDrawing(
        Fields("BeadingStudio", DEFAULT_WORKSPACE_WIDTH_MM, DEFAULT_WORKSPACE_HEIGHT_MM,
               DEFAULT_PIXEL_WIDTH_MM, DEFAULT_PIXEL_HEIGHT_MM, DEFAULT_FILL_THRESHOLD)))

\* The legacy class, with its window scaled down like the defaults above
\* (the source has 150 mm and 3.125 mm).
PixelGridDemo ==
    setupCanvas(createOriginalDrawing(
        Fields("PixelGridDemo", R(40), R(40), R(10), R(10), Q(3, 4))))

\* updateUI: the statistics handed to the UI controller.
updateUI(s, u) ==
    LET gridWidth == GridDim(s.workspaceWidthMM, s.pixelWidthMM)
        gridHeight == GridDim(s.workspaceHeightMM, s.pixelHeightMM)
    IN  [u EXCEPT !.gridWidth = gridWidth, !.gridHeight = gridHeight,
                  !.filledBeads = countFilledBeads(s, gridWidth, gridHeight)]

\* The transform with the document put at the corner instead of the centre.
ContourTransform_NotCentred(s) ==
    IF s.hasLoadedFile /\ Truthy(s.fileWidthMM) /\ Truthy(s.fileHeightMM)
    THEN [scaleX |-> RDiv(s.fileWidthMM, s.workspaceWidthMM),
          scaleY |-> RDiv(s.fileHeightMM, s.workspaceHeightMM),
          offsetX |-> R(0), offsetY |-> R(0)]
    ELSE [scaleX |-> R(1), scaleY |-> R(1), offsetX |-> R(0), offsetY |-> R(0)]

\* renderContour: scale and offset of the document->workspace transform.
ContourTransform(s) ==
    IF s.hasLoadedFile /\ Truthy(s.fileWidthMM) /\ Truthy(s.fileHeightMM)
    THEN LET scaleX == RDiv(s.fileWidthMM, s.workspaceWidthMM)
             scaleY == RDiv(s.fileHeightMM, s.workspaceHeightMM)
         IN  [scaleX |-> scaleX, scaleY |-> scaleY,
              offsetX |-> RDiv(RSub(R(1), scaleX), R(2)),
              offsetY |-> RDiv(RSub(R(1), scaleY), R(2))]
    ELSE [scaleX |-> R(1), scaleY |-> R(1), offsetX |-> R(0), offsetY |-> R(0)]

\* renderContour: the workspace coordinates of a contour point.
ContourToWorkspace(s, point) ==
    LET t == ContourTransform(s)
    IN  IF s.hasLoadedFile /\ Truthy(s.fileWidthMM) /\ Truthy(s.fileHeightMM)
        THEN Pt(RAdd(t.offsetX, RMul(point.x, t.scaleX)),
                RAdd(t.offsetY, RMul(point.y, t.scaleY)))
        ELSE point

\* The path renderContour strokes, in screen coordinates.
renderContour(s) ==
    [i \in 1..Len(s.contour) |->
        LET w == ContourToWorkspace(s, s.contour[i])
        IN  Pt(RMul(w.x, s.currentCanvasWidth), RMul(w.y, s.currentCanvasHeight))]

\* CanvasRenderer.render: what is on the canvas afterwards.
RendererRender(s) ==
    [gridWidth  |-> GridDim(s.workspaceWidthMM, s.pixelWidthMM),
     gridHeight |-> GridDim(s.workspaceHeightMM, s.pixelHeightMM),
     path       |-> renderContour(s)]

----------------------------------------------------------------------------
(* Validator (src/utils/validation.js) and applyScale.                     *)

MAX_FILE_SIZE_MB == 50

clamp(value, min, max) ==
    IF ~IsNum(value) THEN min ELSE RMax(min, RMin(max, value))

validateWorkspaceSize(value) == clamp(value, MIN_WORKSPACE_SIZE_MM, MAX_WORKSPACE_SIZE_MM)
validateScale(value) == clamp(value, MIN_SCALE, MAX_SCALE)
validateFillThreshold(value) == clamp(value, MIN_FILL_THRESHOLD, MAX_FILL_THRESHOLD)
validateGridOffset(value) == clamp(value, MIN_GRID_OFFSET_MM, MAX_GRID_OFFSET_MM)

\* validateFileSize(file.size).valid, sizes in megabytes.
validateFileSize(fileSizeMB) == fileSizeMB <= MAX_FILE_SIZE_MB

\* The wrapper applyScale installs as this.originalDrawing.
ScaledDrawing(originalFunc, currentScale) ==
    IF RLt(RSub(currentScale, R(1)), SCALE_EPSILON) /\ RLt(RSub(R(1), currentScale), SCALE_EPSILON)
    THEN originalFunc
    ELSE [originalFunc EXCEPT !.kind = "scaled", !.scale = currentScale]

ScalePoint(point, scale) ==
    Pt(RAdd(Q(1, 2), RMul(RSub(point.x, Q(1, 2)), scale)),
       RAdd(Q(1, 2), RMul(RSub(point.y, Q(1, 2)), scale)))

applyScale(s) ==
    IF ~s.hasLoadedFile \/ s.fileType # "svg" \/ s.originalContour = <<>>
    THEN s
    ELSE LET sized == Truthy(s.originalFileWidthMM) /\ Truthy(s.originalFileHeightMM)
             currentScale == IF Truthy(s.scale) THEN s.scale ELSE R(1)
         IN  [s EXCEPT
                !.fileWidthMM = IF sized THEN RMul(s.originalFileWidthMM, s.scale) ELSE @,
                !.fileHeightMM = IF sized THEN RMul(s.originalFileHeightMM, s.scale) ELSE @,
                !.contour = [i \in 1..Len(s.originalContour) |-> ScalePoint(s.originalContour[i], s.scale)],
                !.originalDrawing = ScaledDrawing(s.originalDrawingFunction, currentScale)]

----------------------------------------------------------------------------
(* Files the user can pick.  A file is what the parsers make of its text:  *)
(* the entity list of a DXF, the viewBox and drawable elements of an SVG;  *)
(* a DXF file may instead be given by the lines of its text.               *)

File(name, extension, sizeMB, entities, elements) ==
    [name |-> name, extension |-> extension, size |-> sizeMB, entities |-> entities, text |-> <<>>,
     parsererror |-> FALSE, attributes |-> [viewBox |-> "0 0 40 40"],
     viewBox |-> <<R(0), R(0), R(40), R(40)>>, elements |-> elements]

\* CIRCLE with centre (50, 50) and radius 20.
CircleDxf ==
    File("circle.dxf", "dxf", 1,
         <<[type |-> "CIRCLE", cx |-> R(50), cy |-> R(50), radius |-> R(20)]>>, <<>>)

\* A DXF without entities: loadDXF throws.
EmptyDxf == File("empty.dxf", "dxf", 1, <<>>, <<>>)

\* <svg viewBox="0 0 40 40"><rect x="5" y="5" width="30" height="30"/></svg>
RectSvg ==
    File("rect.svg", "svg", 1, <<>>,
         <<[tag |-> "rect", x |-> R(5), y |-> R(5), w |-> R(30), h |-> R(30)]>>)

\* The same square drawn as a <polygon>: no contour is extracted from it.
PolygonSvg ==
    File("polygon.svg", "svg", 1, <<>>,
         <<[tag |-> "polygon", x |-> R(5), y |-> R(5), w |-> R(30), h |-> R(30)]>>)

\* A file above the size limit.
HugeSvg == [RectSvg EXCEPT !.name = "huge.svg", !.size = MAX_FILE_SIZE_MB + 1]

Load(file) == IF file.extension = "svg" THEN loadSVG(file) ELSE loadDXF(file)

\* Lines: a chain (0,0)-(10,0)-(10,10), a line that meets the chain with its
\* end, one that starts 0.4 beside the corner (10,0), one far from the
\* others, and one with an unparsable coordinate.
Lines ==
    {Line(R(0), R(0), R(10), R(0)),
     Line(R(10), R(0), R(10), R(10)),
     Line(R(0), R(10), R(10), R(10)),
     Line(Q(52, 5), R(0), R(20), R(5)),
     Line(R(50), R(50), R(60), R(60)),
     Line(NaN, R(0), R(10), R(10))}

\* Circles, arcs and polylines: well-formed ones, ones with a field that is
\* not a number, a circle at the edge of the number range, an arc with a
\* negative radius, an open polyline of two vertices.
Shapes ==
    {Circle(R(30), R(30), R(20)),
     Circle(NaN, R(30), R(20)),
     Circle(R(MAX_VALUE), R(0), R(MAX_VALUE)),
     Arc(R(10), R(5), R(5), R(270), R(90)),
     Arc(R(10), R(5), R(-5), R(0), R(90)),
     Polyline("LWPOLYLINE", <<Pt(R(0), R(0)), Pt(R(10), R(0)), Pt(R(10), R(10)), Pt(R(0), R(10))>>, TRUE),
     Polyline("POLYLINE", <<Pt(R(10), R(10)), Pt(R(20), R(10)), Pt(R(20), R(20))>>, TRUE),
     Polyline("LWPOLYLINE", <<Pt(R(0), R(0)), Pt(NaN, R(5)), Pt(R(10), R(10)), Pt(R(0), R(10))>>, TRUE),
     Polyline("POLYLINE", <<Pt(R(0), R(0)), Pt(R(10), R(10))>>, FALSE)}

MaxLines == 3
MaxShapes == 2

\* Lists of up to n different elements of S, the empty list among them.
Lists(S, n) ==
    {q \in UNION {[1..k -> S] : k \in 0..n} : \A i, j \in 1..Len(q) : i # j => q[i] # q[j]}

\* DXF documents: up to MaxLines lines, or up to MaxShapes entities of any kind.
DxfFiles ==
    {File("drawing.dxf", "dxf", 1, entities, <<>>) :
        entities \in Lists(Lines, MaxLines) \cup Lists(Lines \cup Shapes, MaxShapes)}

\* DXF documents of one arc: every start and end angle out of a set of whole
\* quarter turns, negative ones and ones of a turn and more among them,
\* around a centre in the drawing and around one at the edge of the number
\* range.
ArcAngles == {-450, -90, 0, 90, 180, 270, 360, 450, 720}

ArcFiles ==
    {File("arc.dxf", "dxf", 1, <<Arc(centre[1], centre[2], centre[3], R(startAngle), R(endAngle))>>, <<>>) :
        centre \in {<<R(10), R(5), R(5)>>, <<R(MAX_VALUE), R(0), R(MAX_VALUE)>>},
        startAngle \in ArcAngles, endAngle \in ArcAngles}

\* DXF texts, line by line.  The entities of a text, each from its code 0
\* line to the line before the next entity:
\*   two LINEs, a CIRCLE, an ARC, a closed LWPOLYLINE, a closed POLYLINE
\*   of three VERTEX entities, a closed and an open SPLINE, an ELLIPSE,
\*   a LINE without its last coordinate, and two entities of types the
\*   loader does not read, TEXT and POINT, both with a 10/20 pair.
EntityTexts ==
    {<<"0", "LINE", "8", "0", "10", "0", "20", "0", "11", "10.0", "21", "0">>,
     <<"0", "LINE", "8", "0", "10", "10", "20", "0", "11", "10", "21", "1e1">>,
     <<"0", "CIRCLE", "10", "30", "20", "30", "40", "20">>,
     <<"0", "ARC", "10", "10", "20", "5", "40", "5", "50", "270", "51", "90">>,
     <<"0", "LWPOLYLINE", "90", "4", "70", "1", "10", "0", "20", "0", "10", "10", "20", "0",
       "10", "10", "20", "10", "10", "0", "20", "10">>,
     <<"0", "POLYLINE", "66", "1", "70", "1", "0", "VERTEX", "10", "10", "20", "10",
       "0", "VERTEX", "10", "20", "20", "10", "0", "VERTEX", "10", "20", "20", "20", "0", "SEQEND">>,
     <<"0", "SPLINE", "70", "1", "10", "0", "20", "0", "10", "20", "20", "0", "10", "20", "20", "20">>,
     <<"0", "SPLINE", "70", "8", "10", "30", "20", "10", "10", "40", "20", "40">>,
     <<"0", "ELLIPSE", "10", "30", "20", "30", "11", "20", "21", "0", "40", "0.5">>,
     <<"0", "LINE", "10", "0", "20", "0", "11", "10">>,
     <<"0", "TEXT", "10", "50", "20", "50", "40", "2.5", "1", "LINE">>,
     <<"0", "POINT", "10", "5", "20", "5">>}

RECURSIVE Flatten(_)
Flatten(q) == IF Len(q) = 0 THEN <<>> ELSE Head(q) \o Flatten(Tail(q))

\* Entity lists of the texts: up to MaxEntities entities, repeats allowed.
MaxEntities == 2
EntityLists == UNION {[1..k -> EntityTexts] : k \in 0..MaxEntities}

EntitiesSection(q) == <<"0", "SECTION", "2", "ENTITIES">> \o Flatten(q) \o <<"0", "ENDSEC">>
OtherSection(name, q) == <<"0", "SECTION", "2", name>> \o Flatten(q) \o <<"0", "ENDSEC">>
HeaderSection == <<"0", "SECTION", "2", "HEADER", "9", "$ACADVER", "1", "AC1015", "0", "ENDSEC">>
Eof == <<"0", "EOF">>

\* Files: the ENTITIES section alone; the section between a HEADER, a BLOCKS
\* and an OBJECTS section that hold entities as well; the section without
\* its ENDSEC; entities outside any section.
TextFile(name, lines) == [File(name, "dxf", 1, <<>>, <<>>) EXCEPT !.text = lines]

SectionFiles ==
    {TextFile("entities.dxf", EntitiesSection(q) \o Eof) : q \in EntityLists}
    \cup {TextFile("sections.dxf",
                   HeaderSection \o OtherSection("BLOCKS", r) \o EntitiesSection(q)
                      \o OtherSection("OBJECTS", r) \o Eof) :
          q \in {q \in EntityLists : Len(q) <= 1}, r \in {r \in EntityLists : Len(r) = 1}}
    \cup {TextFile("unterminated.dxf", <<"0", "SECTION", "2", "ENTITIES">> \o Flatten(q)) :
          q \in {q \in EntityLists : Len(q) = 1}}
    \cup {TextFile("nosection.dxf", Flatten(q) \o Eof) : q \in {q \in EntityLists : Len(q) = 1}}

\* One polyline in both formats: the 10/20 pairs of up to MaxVertices
\* vertices and the value of the group code 70 after the entity's start
\* ("" for an entity without that group code).
MaxVertices == 3
VertexTexts == {<<"0", "0">>, <<"20", "0">>, <<"20", "-10.5">>}
VertexLists == UNION {[1..k -> VertexTexts] : k \in 0..MaxVertices}
FlagTexts == {"", "0", "1", "129"}

FlagGroup(flag) == IF flag = "" THEN <<>> ELSE <<"70", flag>>

PolylineText(V, flag) ==
    <<"0", "POLYLINE", "66", "1">> \o FlagGroup(flag)
       \o Flatten([i \in 1..Len(V) |-> <<"0", "VERTEX", "10", V[i][1], "20", V[i][2]>>])
       \o <<"0", "SEQEND">>

LwPolylineText(V, flag) ==
    <<"0", "LWPOLYLINE">> \o FlagGroup(flag)
       \o Flatten([i \in 1..Len(V) |-> <<"10", V[i][1], "20", V[i][2]>>])

PolylineFiles ==
    {TextFile("polyline.dxf", EntitiesSection(<<PolylineText(V, flag)>>) \o Eof) :
        V \in VertexLists, flag \in FlagTexts}
    \cup {TextFile("lwpolyline.dxf", EntitiesSection(<<LwPolylineText(V, flag)>>) \o Eof) :
        V \in VertexLists, flag \in FlagTexts}

\* Documents given by their text.
ParsedFiles == SectionFiles \cup PolylineFiles


\* SVG documents given by the attributes of their root element, with one
\* unfilled rectangle (nothing is painted, the rectangle is the contour):
\* width and height as texts, "" for an absent attribute, and a viewBox
\* beside a width and a height.
SizeTexts == {"", "100", "40", "40mm", "50.5px", "1e3", "-5", "100%", "auto", "."}

OutlineRect == [tag |-> "rect", x |-> R(5), y |-> R(5), w |-> R(30), h |-> R(30), fill |-> "none"]

SvgFile(name, attributes, elements) ==
    [File(name, "svg", 1, <<>>, elements) EXCEPT !.attributes = attributes]

SizeAttributes(width, height) ==
    [name \in {n \in {"width", "height"} : (IF n = "width" THEN width ELSE height) # ""} |->
        IF name = "width" THEN width ELSE height]

SizedFiles ==
    {SvgFile("sized.svg", SizeAttributes(width, height), <<OutlineRect>>) :
        width \in SizeTexts, height \in SizeTexts}
    \cup {SvgFile("viewbox.svg", [viewBox |-> viewBox, width |-> "80", height |-> "auto"],
                  <<OutlineRect>>) :
          viewBox \in {"0 0 40 40", "-10.5 0 60 20", "0 0 40"}}

\* SVG documents with one unfilled path in a viewBox of 40 by 40: the path
\* starts at (10, 10) and goes on with up to MaxCommands of the commands
\* below, every command with all its coordinates, written with blanks and
\* commas between them.
MaxCommands == 2

CommandTexts ==
    {" L 30 10", "l 5,5 5,-5", " H 30", " h -5 10", "V30", " v 5",
     " C 10 20 20 20 30 10", "c 0,10 10,10 10,0", " S 30 30 20 30", " s 5 5 10 0 5 -5 10 0",
     " Q 20 0 30 10", "q 5 5 10 0", " T 30 30", " t 5 0 5 0",
     " A 5 5 0 0 1 20 10", " a 5 5 0 0 1 5 5", " M 20 20", "m 5 5", " Z", "z"}

PathTexts ==
    {"M 10 10"} \cup {"M 10 10" \o a : a \in CommandTexts}
                \cup {"M 10 10" \o a \o b : a \in CommandTexts, b \in CommandTexts}

PathFiles ==
    {SvgFile("path.svg", [viewBox |-> "0 0 40 40"],
             <<[tag |-> "path", d |-> d, fill |-> "none"]>>) : d \in PathTexts}

SvgFiles == SizedFiles \cup PathFiles

----------------------------------------------------------------------------
(* State.                                                                  *)
(*   this    - the application object                                      *)
(*   ui      - what the page shows: statistics, file info, loading         *)
(*             indicator, last notification, row overlay                   *)
(*   canvas  - what CanvasRenderer.render drew last                        *)
(*   pending - the files whose handleFileUpload is suspended at its await  *)
(*   readers - the files whose FileReader has not called onload yet        *)
(*   saving  - the await at which saveProject stands, and what it wrote    *)

VARIABLES this, ui, canvas, pending, readers, saving

vars == <<this, ui, canvas, pending, readers, saving>>

\* Uploads that may be suspended at the same time.
MaxPending == 2

NoFileInfo == [fileName |-> "null", width |-> Null, height |-> Null]

BlankUI ==
    [gridWidth |-> 0, gridHeight |-> 0, filledBeads |-> 0,
     fileInfo |-> NoFileInfo, fileInput |-> "null", loading |-> FALSE, notification |-> "none",
     overlay |-> [display |-> FALSE, count |-> 0, bead |-> NoBead]]

\* No saveProject is running and none has written a project.
NotSaving == [at |-> "idle", isElectron |-> FALSE, projectData |-> <<>>]

\* The constructor: updateUI, then the first render.
Init ==
    /\ this = BeadingStudio
    /\ ui = updateUI(BeadingStudio, BlankUI)
    /\ canvas = RendererRender(BeadingStudio)
    /\ pending = {}
    /\ readers = {}
    /\ saving = NotSaving

DemoInit ==
    /\ this = PixelGridDemo
    /\ ui = updateUI(PixelGridDemo, BlankUI)
    /\ canvas = RendererRender(PixelGridDemo)
    /\ pending = {}
    /\ readers = {}
    /\ saving = NotSaving

\* render() on object s: the canvas is redrawn and the statistics refreshed.
render(s, u) ==
    /\ this' = s
    /\ canvas' = RendererRender(s)
    /\ ui' = updateUI(s, u)

handlePixelWidthChange(value) ==
    /\ render([this EXCEPT !.pixelWidthMM = value], ui)
    /\ UNCHANGED <<pending, readers, saving>>

handlePixelHeightChange(value) ==
    /\ render([this EXCEPT !.pixelHeightMM = value], ui)
    /\ UNCHANGED <<pending, readers, saving>>

handleWorkspaceWidthChange(value) ==
    /\ render(setupCanvas([this EXCEPT !.workspaceWidthMM = validateWorkspaceSize(value)]), ui)
    /\ UNCHANGED <<pending, readers, saving>>

handleWorkspaceHeightChange(value) ==
    /\ render(setupCanvas([this EXCEPT !.workspaceHeightMM = validateWorkspaceSize(value)]), ui)
    /\ UNCHANGED <<pending, readers, saving>>

handleFillThresholdChange(value) ==
    LET invertedValue == RSub(R(1), value)
    IN  /\ render([this EXCEPT !.fillThreshold = validateFillThreshold(invertedValue)], ui)
        /\ UNCHANGED <<pending, readers, saving>>

handleGridTypeChange(type) ==
    /\ render([this EXCEPT !.gridType = type], ui)
    /\ UNCHANGED <<pending, readers, saving>>

handleGridOffsetXChange(value) ==
    /\ render([this EXCEPT !.gridOffsetX = validateGridOffset(value)], ui)
    /\ UNCHANGED <<pending, readers, saving>>

handleGridOffsetYChange(value) ==
    /\ render([this EXCEPT !.gridOffsetY = validateGridOffset(value)], ui)
    /\ UNCHANGED <<pending, readers, saving>>

\* uiController.updateFileInfo: width.toFixed(1) throws on a null width.
FileInfoThrows(s) == ~IsNum(s.fileWidthMM) \/ ~IsNum(s.fileHeightMM)

updateFileInfo(s, u) ==
    [u EXCEPT !.fileInfo = [fileName |-> s.loadedFileName,
                            width |-> s.fileWidthMM, height |-> s.fileHeightMM]]

handleScaleChange(value) ==
    /\ UNCHANGED <<pending, readers, saving>>
    /\ IF this.fileType # "svg"
       THEN UNCHANGED <<this, ui, canvas>>
       ELSE LET s == applyScale([this EXCEPT !.scale = validateScale(value)])
                shown == s.hasLoadedFile /\ Truthy(s.fileWidthMM) /\ Truthy(s.fileHeightMM)
                            /\ s.loadedFileName # "null"
            IN  render(s, IF shown THEN updateFileInfo(s, ui) ELSE ui)

\* PixelGridDemo.handleFillThresholdChange: the value is stored as it comes.
Demo_handleFillThresholdChange(value) ==
    /\ render([this EXCEPT !.fillThreshold = value], ui)
    /\ UNCHANGED <<pending, readers, saving>>

\* PixelGridDemo.handleWorkspaceWidthChange: no validation.
Demo_handleWorkspaceWidthChange(value) ==
    /\ render(setupCanvas([this EXCEPT !.workspaceWidthMM = value]), ui)
    /\ UNCHANGED <<pending, readers, saving>>

----------------------------------------------------------------------------
(* handleFileUpload.  The handler runs up to its await (the loader), and   *)
(* resumes with the loader's result when the loader has settled.           *)

\* handleFileUpload(file, extension) up to "await".
handleFileUpload(file) ==
    /\ UNCHANGED <<this, canvas, readers, saving>>
    /\ IF ~validateFileSize(file.size)
       THEN /\ ui' = [ui EXCEPT !.fileInput = file.name, !.notification = "error"]
            /\ UNCHANGED pending
       ELSE /\ file \notin pending
            /\ Cardinality(pending) < MaxPending
            /\ ui' = [ui EXCEPT !.fileInput = file.name, !.loading = TRUE]
            /\ pending' = pending \cup {file}

\* The assignments between the await and updateFileInfo.
StoreResult(s, file, result) ==
    LET stored == [s EXCEPT
                     !.fileType = file.extension,
                     !.originalContour = IF Len(result.contour) > 0 THEN result.contour ELSE @,
                     !.contour = IF Len(result.contour) > 0 THEN result.contour ELSE @,
                     !.originalDrawingFunction = result.drawingFunction,
                     !.originalDrawing = result.drawingFunction,
                     !.loadedFileName = file.name,
                     !.hasLoadedFile = TRUE,
                     !.loadedFileExtension = file.extension]
    IN  IF file.extension = "svg"
        THEN applyScale([stored EXCEPT !.originalFileWidthMM = result.width,
                                       !.originalFileHeightMM = result.height,
                                       !.scale = R(1)])
        ELSE [stored EXCEPT !.fileWidthMM = result.width,
                            !.fileHeightMM = result.height,
                            !.originalFileWidthMM = Null,
                            !.originalFileHeightMM = Null]

\* The catch block: hideLoading and the error notification.
UploadCatch(u, s) ==
    [u EXCEPT !.loading = FALSE,
              !.notification = IF s.isAutoLoading THEN @ ELSE "error"]

\* reader.onload: the callback of the FileReader that handleFileUpload
\* started for the file.  The base64 text of a file is told by the file's
\* name.
FileReaderOnload(file) ==
    /\ file \in readers
    /\ readers' = readers \ {file}
    /\ this' = [this EXCEPT !.loadedFileData = file.name]
    /\ UNCHANGED <<ui, canvas, pending, saving>>

\* The element of a set of one element.
Only(S) == CHOOSE x \in S : TRUE

\* handleFileUpload once the result is stored in the object: the FileReader
\* is started, then updateFileInfo, updateUI, render, hideLoading and the
\* notification, or the catch block when updateFileInfo throws.
UploadStored(stored, u, c) ==
    IF FileInfoThrows(stored)
    THEN [this |-> stored, ui |-> UploadCatch(u, stored), canvas |-> c, reading |-> TRUE]
    ELSE [this |-> stored, canvas |-> RendererRender(stored), reading |-> TRUE,
          ui |-> [updateUI(stored, updateFileInfo(stored, u)) EXCEPT
                    !.loading = FALSE,
                    !.notification = IF stored.isAutoLoading THEN @ ELSE "success"]]

\* handleFileUpload once the loader has settled with result: the catch
\* block for a rejection, else the assignments and the rest.
UploadSettled(s, u, c, file, result) ==
    IF ~result.ok
    THEN [this |-> s, ui |-> UploadCatch(u, s), canvas |-> c, reading |-> FALSE]
    ELSE Only({UploadStored(stored, u, c) : stored \in {StoreResult(s, file, result)}})

\* handleFileUpload from the await to its end on object s, page u and
\* canvas c: what it leaves, and whether reader.readAsDataURL(file) was
\* called (once the result is stored, before updateFileInfo).
UploadOutcome(s, u, c, file) ==
    Only({UploadSettled(s, u, c, file, result) : result \in {Load(file)}})

handleFileUploadResume(file) ==
    /\ file \in pending
    /\ pending' = pending \ {file}
    /\ \E outcome \in {UploadOutcome(this, ui, canvas, file)} :
           /\ this' = outcome.this
           /\ ui' = outcome.ui
           /\ canvas' = outcome.canvas
           /\ readers' = IF outcome.reading THEN readers \cup {file} ELSE readers
    /\ UNCHANGED saving

----------------------------------------------------------------------------
(* saveProject.  The handler awaits the save dialog (the Electron dialog   *)
(* of the main process, or the modal of showSaveDialogBrowser) and, in     *)
(* Electron, the main process writing the file.  One saveProject runs at a *)
(* time.                                                                   *)

\* saveProject() up to its first await: showLoading, then the dialog of
\* the environment.
saveProject(isElectronEnv) ==
    /\ saving.at = "idle"
    /\ ui' = [ui EXCEPT !.loading = TRUE]
    /\ saving' = [at |-> IF isElectronEnv THEN "show-save-dialog"
                                          ELSE "showSaveDialogBrowser",
                  isElectron |-> FALSE, projectData |-> <<>>]
    /\ UNCHANGED <<this, canvas, pending, readers>>

\* const projectData = {...}: the fields of the object at that moment.
ProjectDataOf(s) ==
    [workspaceWidthMM |-> s.workspaceWidthMM, workspaceHeightMM |-> s.workspaceHeightMM,
     pixelWidthMM |-> s.pixelWidthMM, pixelHeightMM |-> s.pixelHeightMM,
     gridType |-> s.gridType, gridOffsetX |-> s.gridOffsetX, gridOffsetY |-> s.gridOffsetY,
     scale |-> s.scale, fillThreshold |-> s.fillThreshold,
     fileType |-> s.fileType, hasLoadedFile |-> s.hasLoadedFile,
     fileWidthMM |-> s.fileWidthMM, fileHeightMM |-> s.fileHeightMM,
     originalFileWidthMM |-> s.originalFileWidthMM,
     originalFileHeightMM |-> s.originalFileHeightMM,
     loadedFileName |-> s.loadedFileName, loadedFileData |-> s.loadedFileData,
     loadedFileExtension |-> s.loadedFileExtension,
     originalContour |-> s.originalContour, contour |-> s.contour]

\* saveProject from the Electron dialog on.  result is "canceled" (the
\* user cancelled, or no filePath), "filePath", or "rejected" (the
\* invocation threw: the handler falls back on the browser dialog).
saveProjectDialog(result) ==
    /\ saving.at = "show-save-dialog"
    /\ saving' = CASE result = "canceled" -> [saving EXCEPT !.at = "idle"]
                   [] result = "rejected" -> [saving EXCEPT !.at = "showSaveDialogBrowser"]
                   [] OTHER -> [at |-> "save-file", isElectron |-> TRUE,
                                projectData |-> <<ProjectDataOf(this)>>]
    /\ UNCHANGED <<this, ui, canvas, pending, readers>>

\* saveProject from the browser dialog on.  The dialog resolves with null
\* (the cancel button, Escape, a click outside the dialog) or with a file
\* name (the save button); with a name the project is downloaded.
showSaveDialogBrowser(named) ==
    /\ saving.at = "showSaveDialogBrowser"
    /\ IF ~named
       THEN /\ saving' = [saving EXCEPT !.at = "idle"]
            /\ UNCHANGED ui
       ELSE /\ saving' = [saving EXCEPT !.at = "idle",
                                        !.projectData = <<ProjectDataOf(this)>>]
            /\ ui' = [ui EXCEPT !.loading = FALSE, !.notification = "success"]
    /\ UNCHANGED <<this, canvas, pending, readers>>

\* saveProject from the 'save-file' invocation on: hideLoading and the
\* notification of the outcome.
saveProjectSaveFile(success) ==
    /\ saving.at = "save-file"
    /\ saving' = [saving EXCEPT !.at = "idle"]
    /\ ui' = [ui EXCEPT !.loading = FALSE,
                        !.notification = IF success THEN "success" ELSE "error"]
    /\ UNCHANGED <<this, canvas, pending, readers>>

----------------------------------------------------------------------------
(* loadProject.  The handler runs up to "await file.text()" and resumes    *)
(* with the text.  A project file is given by its size and by what         *)
(* JSON.parse makes of its text (valid = the text is JSON); a key that the *)
(* text does not have is Undefined, for gridType "".  A project that holds *)
(* a file of its own makes the handler await handleFileUpload for that     *)
(* file; the project stays in pending, marked with that await.             *)

MAX_PROJECT_SIZE_MB == 10

\* loadProject(file) up to "await".
loadProject(file) ==
    /\ UNCHANGED <<this, canvas, readers, saving>>
    /\ IF file.size > MAX_PROJECT_SIZE_MB
       THEN /\ ui' = [ui EXCEPT !.notification = "error"]
            /\ UNCHANGED pending
       ELSE /\ file \notin pending
            /\ Cardinality(pending) < MaxPending
            /\ ui' = [ui EXCEPT !.loading = TRUE]
            /\ pending' = pending \cup {file}

\* "Restore the settings" and "restore the file data": the assignments
\* from projectData, unvalidated, with the defaults of the constructor.
RestoreProject(s, projectData) ==
    LET Or(value, default) == IF Truthy(value) THEN value ELSE default
    IN  [s EXCEPT
           !.workspaceWidthMM = Or(projectData.workspaceWidthMM, DEFAULT_WORKSPACE_WIDTH_MM),
           !.workspaceHeightMM = Or(projectData.workspaceHeightMM, DEFAULT_WORKSPACE_HEIGHT_MM),
           !.pixelWidthMM = Or(projectData.pixelWidthMM, DEFAULT_PIXEL_WIDTH_MM),
           !.pixelHeightMM = Or(projectData.pixelHeightMM, DEFAULT_PIXEL_HEIGHT_MM),
           !.gridType = IF projectData.gridType # "" THEN projectData.gridType ELSE "peyote",
           !.gridOffsetX = Or(projectData.gridOffsetX, R(0)),
           !.gridOffsetY = Or(projectData.gridOffsetY, R(0)),
           !.scale = Or(projectData.scale, R(1)),
           !.fillThreshold = IF projectData.fillThreshold # Undefined
                             THEN projectData.fillThreshold ELSE DEFAULT_FILL_THRESHOLD,
           !.fileType = projectData.fileType,
           !.hasLoadedFile = projectData.hasLoadedFile,
           !.fileWidthMM = projectData.fileWidthMM,
           !.fileHeightMM = projectData.fileHeightMM,
           !.originalFileWidthMM = projectData.originalFileWidthMM,
           !.originalFileHeightMM = projectData.originalFileHeightMM,
           !.loadedFileName = projectData.loadedFileName,
           !.originalContour = projectData.originalContour,
           !.contour = projectData.contour]

\* The condition of "restore the file, if it was saved".
HasEmbeddedFile(projectData) ==
    /\ projectData.hasLoadedFile
    /\ projectData.loadedFileData # "null"
    /\ projectData.loadedFileExtension # "null"

\* fileObj: the File made of the decoded loadedFileData, under the name and
\* the extension the project gives.
EmbeddedFile(projectData) ==
    LET content == CHOOSE file \in {CircleDxf, EmptyDxf, RectSvg, PolygonSvg} :
                       file.name = projectData.loadedFileData
    IN  [content EXCEPT
           !.name = IF projectData.loadedFileName # "null" THEN projectData.loadedFileName
                    ELSE "file." \o projectData.loadedFileExtension,
           !.extension = projectData.loadedFileExtension]

\* loadProject from "restore the scale for SVG" to its end, on object s and
\* page u.
FinishProject(s, u, projectData) ==
    \E scaled \in {IF projectData.loadedFileExtension = "svg" /\ projectData.scale # Undefined
                    THEN applyScale([s EXCEPT !.scale = projectData.scale])
                    ELSE s} :
    \E finished \in {setupCanvas(scaled)} :
        /\ this' = finished
        /\ canvas' = RendererRender(finished)
        /\ ui' = [updateUI(finished, u) EXCEPT !.loading = FALSE, !.notification = "success"]

\* loadProject from "await file.text()" to its end, or to the await of
\* handleFileUpload for the file the project holds (that call runs up to
\* its own await: the size validation and showLoading).
loadProjectResume(file) ==
    /\ file \in pending
    /\ file.at = "text"
    /\ UNCHANGED <<readers, saving>>
    /\ IF ~file.valid
       THEN /\ pending' = pending \ {file}
            /\ ui' = [ui EXCEPT !.loading = FALSE, !.notification = "error"]
            /\ UNCHANGED <<this, canvas>>
       ELSE IF ~HasEmbeddedFile(file.data)
       THEN /\ pending' = pending \ {file}
            /\ \E s \in {setupCanvas(createOriginalDrawing(RestoreProject(this, file.data)))} :
                  /\ this' = s
                  /\ canvas' = RendererRender(s)
                  /\ ui' = [updateUI(s, ui) EXCEPT !.loading = FALSE, !.notification = "success"]
       ELSE IF ~validateFileSize(EmbeddedFile(file.data).size)
       THEN /\ pending' = pending \ {file}
            /\ FinishProject(RestoreProject(this, file.data),
                             [ui EXCEPT !.notification = "error"], file.data)
       ELSE /\ pending' = (pending \ {file}) \cup {[file EXCEPT !.at = "handleFileUpload"]}
            /\ this' = RestoreProject(this, file.data)
            /\ ui' = [ui EXCEPT !.loading = TRUE]
            /\ UNCHANGED canvas

\* loadProject from "await this.handleFileUpload(fileObj, ...)" to its end:
\* the loader has settled, handleFileUpload runs to its end, and
\* loadProject goes on.
loadProjectUploaded(file) ==
    /\ file \in pending
    /\ file.at = "handleFileUpload"
    /\ pending' = pending \ {file}
    /\ UNCHANGED saving
    /\ \E fileObj \in {EmbeddedFile(file.data)} :
       \E outcome \in {UploadOutcome(this, ui, canvas, fileObj)} :
           /\ readers' = IF outcome.reading THEN readers \cup {fileObj} ELSE readers
           /\ FinishProject(outcome.this, outcome.ui, file.data)

----------------------------------------------------------------------------
(* Mouse handlers and the row overlay.                                     *)

\* n % 2 === 1 in JavaScript (false for negative n).
JsOdd(n) == n > 0 /\ n % 2 = 1

\* handleMouseMove: the row or column index and the bead under (x, y).
HoverTarget(s, x, y) ==
    LET gridWidth == GridDim(s.workspaceWidthMM, s.pixelWidthMM)
        gridHeight == GridDim(s.workspaceHeightMM, s.pixelHeightMM)
        g == GridGeometry(s, gridWidth, gridHeight)
        pcol == RFloor(RDiv(RSub(x, g.gridOffsetPxX), g.pixelWidthPx))
        prow == RFloor(RDiv(RSub(RSub(y, g.gridOffsetPxY),
                                 IF JsOdd(pcol) THEN Half(g.pixelHeightPx) ELSE R(0)),
                            g.pixelHeightPx))
        brow == RFloor(RDiv(RSub(y, g.gridOffsetPxY), g.pixelHeightPx))
        bcol == RFloor(RDiv(RSub(RSub(x, g.gridOffsetPxX),
                                 IF JsOdd(brow) THEN Half(g.pixelWidthPx) ELSE R(0)),
                            g.pixelWidthPx))
    IN  CASE s.gridType = "peyote" ->
               IF pcol >= 0 /\ pcol < gridWidth
               THEN [rowIndex |-> pcol, beadCol |-> pcol,
                     beadRow |-> IF prow >= 0 /\ prow < gridHeight THEN prow ELSE -1]
               ELSE [rowIndex |-> -1, beadCol |-> -1, beadRow |-> -1]
          [] s.gridType = "brick" ->
               IF brow >= 0 /\ brow < gridHeight
               THEN [rowIndex |-> brow, beadRow |-> brow,
                     beadCol |-> IF bcol >= 0 /\ bcol < gridWidth THEN bcol ELSE -1]
               ELSE [rowIndex |-> -1, beadCol |-> -1, beadRow |-> -1]
          [] OTHER -> [rowIndex |-> -1, beadCol |-> -1, beadRow |-> -1]

updateRowOverlayInfo(s, u) ==
    IF s.hoveredRow = -1 /\ s.hoveredBead = NoBead
    THEN [u EXCEPT !.overlay.display = FALSE]
    ELSE [u EXCEPT !.overlay = [display |-> TRUE,
                                count |-> IF s.hoveredRow # -1
                                          THEN countBeadsInRow(s, s.hoveredRow) ELSE 0,
                                bead |-> s.hoveredBead]]

\* isBeadFilled for the bead under the mouse: the new this.hoveredBead.
HoveredBead(s, h) ==
    IF h.beadRow # -1 /\ h.beadCol # -1 /\ isBeadFilled(s, h.beadRow, h.beadCol)
    THEN [row |-> h.beadRow, col |-> h.beadCol]
    ELSE NoBead

handleMouseMove(x, y) ==
    \E h \in {HoverTarget(this, x, y)} :
    \E newHoveredBead \in {HoveredBead(this, h)} :
    \E s \in {[this EXCEPT !.hoveredRow = h.rowIndex, !.hoveredBead = newHoveredBead]} :
        LET beadChanged == this.hoveredBead = NoBead \/ newHoveredBead = NoBead
                              \/ this.hoveredBead # newHoveredBead
        IN  /\ UNCHANGED <<pending, readers, saving>>
            /\ IF this.hoveredRow # h.rowIndex \/ beadChanged
               THEN /\ this' = s
                    /\ canvas' = RendererRender(s)
                    /\ ui' = updateRowOverlayInfo(s, updateUI(s, ui))
               ELSE /\ ui' = updateRowOverlayInfo(this, ui)
                    /\ UNCHANGED <<this, canvas>>

handleMouseLeave ==
    LET s == [this EXCEPT !.hoveredRow = -1, !.hoveredBead = NoBead]
    IN  /\ this' = s
        /\ canvas' = RendererRender(s)
        /\ ui' = [updateUI(s, ui) EXCEPT !.overlay.display = FALSE]
        /\ UNCHANGED <<pending, readers, saving>>

----------------------------------------------------------------------------
(* Inputs and specifications.  Each specification runs the handlers of one *)
(* part of the page from the constructor's state.                          *)

Files == {CircleDxf, EmptyDxf, RectSvg, PolygonSvg, HugeSvg}
Scales == {Q(1, 2), R(1), R(2)}
GridTypes == {"peyote", "brick", "square"}
\* Positions of the sensitivity slider (the threshold is 1 - value).
Sensitivities == {R(0), Q(1, 2), R(1)}
\* A canvas position over an edge cell of the default grid.
MousePositions == {<<R(300), R(100)>>}
PixelSizes == {R(10), R(12), R(50)}
WorkspaceSizes == {R(5), R(40)}
GridOffsets == {R(0), R(5)}
DemoThresholds == {R(0), Q(1, 2), Q(3, 4), R(1)}
DemoWorkspaceSizes == {R(40), R(80)}

\* Project files: every combination of a fillThreshold, a gridType and a
\* workspace width, each present or missing; a text that is not JSON; a
\* file above the size limit.
ProjectData(fillThreshold, gridType, workspaceWidthMM) ==
    [workspaceWidthMM |-> workspaceWidthMM, workspaceHeightMM |-> R(40),
     pixelWidthMM |-> Undefined, pixelHeightMM |-> R(10),
     gridType |-> gridType, gridOffsetX |-> R(0), gridOffsetY |-> Undefined,
     scale |-> Undefined, fillThreshold |-> fillThreshold,
     fileType |-> "null", hasLoadedFile |-> FALSE,
     fileWidthMM |-> Null, fileHeightMM |-> Null,
     originalFileWidthMM |-> Null, originalFileHeightMM |-> Null,
     loadedFileName |-> "null", loadedFileData |-> "null", loadedFileExtension |-> "null",
     originalContour |-> <<>>, contour |-> <<>>]

ProjectFile(size, valid, data) ==
    [name |-> "project.beading", extension |-> "beading", size |-> size, valid |-> valid,
     data |-> data, at |-> "text"]

ProjectFiles ==
    {ProjectFile(1, TRUE, ProjectData(fillThreshold, gridType, workspaceWidthMM)) :
        fillThreshold \in {Undefined, R(0), Q(1, 4), R(1), R(5), Q(-1, 2)},
        gridType \in {"", "brick"},
        workspaceWidthMM \in {Undefined, R(80)}}
    \cup {ProjectFile(1, FALSE, ProjectData(Undefined, "", Undefined)),
          ProjectFile(MAX_PROJECT_SIZE_MB + 1, TRUE, ProjectData(Undefined, "", Undefined))}

\* Values the sensitivity slider hands over, among them ones outside [0, 1]
\* and one that is not a number.
SliderValues == {R(0), Q(1, 4), R(1), R(2), R(-1), NaN}

\* File upload and SVG scaling.  A FileReader calls onload before the next
\* handler runs: the callback writes loadedFileData only, which none of
\* these handlers reads (SaveSpec lets the callbacks wait).
Next ==
    \/ \E file \in Files : readers = {} /\ handleFileUpload(file)
    \/ \E file \in Files : readers = {} /\ handleFileUploadResume(file)
    \/ \E value \in Scales : readers = {} /\ handleScaleChange(value)
    \/ \E file \in Files : FileReaderOnload(file)

Spec == Init /\ [][Next]_vars

\* The counting of filled beads: one drawing, thresholds, topologies, mouse.
FillNext ==
    \/ \E file \in {CircleDxf} : handleFileUpload(file)
    \/ \E file \in {CircleDxf} : handleFileUploadResume(file)
    \/ \E value \in Sensitivities : handleFillThresholdChange(value)
    \/ \E type \in GridTypes : handleGridTypeChange(type)
    \/ \E m \in MousePositions : handleMouseMove(m[1], m[2])
    \/ handleMouseLeave

FillSpec == Init /\ [][FillNext]_vars

\* The grid geometry: cell and workspace sizes, topology, grid offsets.
SizeNext ==
    \/ \E value \in PixelSizes : handlePixelWidthChange(value)
    \/ \E value \in PixelSizes : handlePixelHeightChange(value)
    \/ \E value \in WorkspaceSizes : handleWorkspaceWidthChange(value)
    \/ \E value \in WorkspaceSizes : handleWorkspaceHeightChange(value)
    \/ \E type \in GridTypes : handleGridTypeChange(type)
    \/ \E value \in GridOffsets : handleGridOffsetXChange(value)
    \/ \E value \in GridOffsets : handleGridOffsetYChange(value)

SizeSpec == Init /\ [][SizeNext]_vars

\* The legacy PixelGridDemo page without a file.
DemoNext ==
    \/ \E value \in DemoThresholds : Demo_handleFillThresholdChange(value)
    \/ \E value \in PixelSizes : handlePixelWidthChange(value)
    \/ \E value \in PixelSizes : handlePixelHeightChange(value)
    \/ \E value \in DemoWorkspaceSizes : Demo_handleWorkspaceWidthChange(value)
    \/ \E type \in GridTypes : handleGridTypeChange(type)

DemoSpec == DemoInit /\ [][DemoNext]_vars

\* The DXF loader: one document is uploaded into a page that shows none.
DxfNext ==
    \/ \E file \in DxfFiles \cup ArcFiles :
          /\ ~this.hasLoadedFile /\ pending = {}
          /\ handleFileUpload(file)
    \/ \E file \in DxfFiles \cup ArcFiles : handleFileUploadResume(file)

DxfSpec == Init /\ [][DxfNext]_vars

\* The DXF parser: one text is uploaded into a page that shows none.
ParseNext ==
    \/ \E file \in ParsedFiles :
          /\ ~this.hasLoadedFile /\ pending = {}
          /\ handleFileUpload(file)
    \/ \E file \in ParsedFiles : handleFileUploadResume(file)

ParseSpec == Init /\ [][ParseNext]_vars

\* The SVG loader: one document is uploaded into a page that shows none.
SvgNext ==
    \/ \E file \in SvgFiles :
          /\ ~this.hasLoadedFile /\ pending = {}
          /\ handleFileUpload(file)
    \/ \E file \in SvgFiles : handleFileUploadResume(file)

SvgSpec == Init /\ [][SvgNext]_vars

\* Projects and the fill threshold: a project is loaded while no other is,
\* and the sensitivity slider is moved.
ProjectNext ==
    \/ \E file \in ProjectFiles :
          /\ pending = {}
          /\ loadProject(file)
    \/ \E file \in ProjectFiles : loadProjectResume(file)
    \/ \E value \in SliderValues : handleFillThresholdChange(value)

ProjectSpec == Init /\ [][ProjectNext]_vars

\* Projects that hold a file: what saveProject writes after the upload of
\* each of the documents on the constructor's object, with the
\* loadedFileData of that file, of the other file, or none.
EmbeddedProjects(documents) ==
    {ProjectFile(1, TRUE, [projectData EXCEPT !.loadedFileData = loadedFileData]) :
        projectData \in
            UNION {{ProjectDataOf(stored) :
                       stored \in {StoreResult(BeadingStudio, file, result) :
                                      result \in {Load(file)}}} : file \in documents},
        loadedFileData \in {"rect.svg", "circle.dxf", "null"}}

\* A document is uploaded, then projects that hold a file are loaded, one
\* handler at a time.  The FileReader calls onload before the next handler
\* runs.
EmbedNext ==
    \/ \E file \in {PolygonSvg} : pending = {} /\ readers = {} /\ handleFileUpload(file)
    \/ \E file \in {PolygonSvg} : readers = {} /\ handleFileUploadResume(file)
    \/ \E file \in readers : FileReaderOnload(file)
    \/ pending = {} /\ readers = {} /\ \E file \in EmbeddedProjects({RectSvg, CircleDxf}) : loadProject(file)
    \/ \E file \in pending :
          readers = {} /\ file.extension = "beading" /\ loadProjectResume(file)
    \/ \E file \in pending :
          readers = {} /\ file.extension = "beading" /\ loadProjectUploaded(file)

EmbedSpec == Init /\ [][EmbedNext]_vars

\* Counting: the circle is uploaded, and the topology, the grid offsets
\* (negative ones too) and the sensitivity are changed.  The FileReader
\* calls onload before the next handler runs.
CountOffsets == {R(-5), R(0), R(5)}
CountSensitivities == {Q(1, 2), R(1)}

CountNext ==
    \/ \E file \in {CircleDxf} : readers = {} /\ handleFileUpload(file)
    \/ \E file \in {CircleDxf} : readers = {} /\ handleFileUploadResume(file)
    \/ \E file \in {CircleDxf} : FileReaderOnload(file)
    \/ \E type \in GridTypes : readers = {} /\ handleGridTypeChange(type)
    \/ \E value \in CountOffsets : readers = {} /\ handleGridOffsetXChange(value)
    \/ \E value \in CountOffsets : readers = {} /\ handleGridOffsetYChange(value)
    \/ \E value \in CountSensitivities : readers = {} /\ handleFillThresholdChange(value)

CountSpec == Init /\ [][CountNext]_vars

\* Uploads and saves: two files are uploaded, the FileReader of each
\* calls onload at any later moment, and the project is saved at any
\* moment, in Electron or in the browser.
SaveFiles == {CircleDxf, RectSvg}

SaveNext ==
    \/ \E file \in SaveFiles : handleFileUpload(file)
    \/ \E file \in SaveFiles : handleFileUploadResume(file)
    \/ \E file \in SaveFiles : FileReaderOnload(file)
    \/ \E isElectronEnv \in BOOLEAN : saveProject(isElectronEnv)
    \/ \E result \in {"canceled", "rejected", "filePath"} : saveProjectDialog(result)
    \/ \E named \in BOOLEAN : showSaveDialogBrowser(named)
    \/ \E success \in BOOLEAN : saveProjectSaveFile(success)

SaveSpec == Init /\ [][SaveNext]_vars

\* Saves alone, between changes of the topology and of the sensitivity:
\* every dialog is answered and every invocation of the main process
\* settles.
SaveFairNext ==
    \/ \E type \in GridTypes : handleGridTypeChange(type)
    \/ \E value \in Sensitivities : handleFillThresholdChange(value)
    \/ \E isElectronEnv \in BOOLEAN : saveProject(isElectronEnv)
    \/ \E result \in {"canceled", "rejected", "filePath"} : saveProjectDialog(result)
    \/ \E named \in BOOLEAN : showSaveDialogBrowser(named)
    \/ \E success \in BOOLEAN : saveProjectSaveFile(success)

SaveFairSpec ==
    /\ Init /\ [][SaveFairNext]_vars
    /\ WF_vars(\E result \in {"canceled", "rejected", "filePath"} : saveProjectDialog(result))
    /\ WF_vars(\E named \in BOOLEAN : showSaveDialogBrowser(named))
    /\ WF_vars(\E success \in BOOLEAN : saveProjectSaveFile(success))

----------------------------------------------------------------------------
(* Properties.                                                             *)

Cells(gridWidth, gridHeight) == (0..(gridHeight - 1)) \X (0..(gridWidth - 1))

CurrentGridWidth == GridDim(this.workspaceWidthMM, this.pixelWidthMM)
CurrentGridHeight == GridDim(this.workspaceHeightMM, this.pixelHeightMM)
CurrentGeometry == GridGeometry(this, CurrentGridWidth, CurrentGridHeight)

\* The classification rule as the specification words it.
FilledByRule(fillPercentage, threshold) ==
    \/ threshold = R(0) /\ RGt(fillPercentage, R(0))
    \/ threshold # R(0) /\ RGe(fillPercentage, threshold)

\* The cells of row (brick) or column (peyote) rowIndex that lie on the canvas.
RowCells(rowIndex) ==
    {c \in Cells(CurrentGridWidth, CurrentGridHeight) :
        /\ \/ this.gridType = "peyote" /\ c[2] = rowIndex
           \/ this.gridType = "brick" /\ c[1] = rowIndex
        /\ ~OffCanvas(CurrentGeometry, RowCellOrigin(this, CurrentGeometry, c[1], c[2]))}

\* C1: countFilledBeads, countBeadsInRow and isBeadFilled call a cell filled
\* exactly when (threshold = 0 and fillPercentage > 0) or (threshold # 0 and
\* fillPercentage >= threshold): the displayed count is the number of cells
\* the rule accepts, the row count of the hovered row is the number of its
\* cells the rule accepts, and isBeadFilled agrees with the rule on every cell.
C1_ThresholdRule ==
    /\ ui.filledBeads =
         Cardinality({c \in Cells(CurrentGridWidth, CurrentGridHeight) :
            FilledByRule(CellFill(this, CurrentGeometry,
                                  CellOrigin(this, CurrentGeometry, c[1], c[2])),
                         this.fillThreshold)})
    /\ this.hoveredRow # -1 =>
         countBeadsInRow(this, this.hoveredRow) =
            Cardinality({c \in RowCells(this.hoveredRow) :
               FilledByRule(BeadFill(this, c[1], c[2]), this.fillThreshold)})
    /\ \A c \in RowCells(this.hoveredRow) :
         isBeadFilled(this, c[1], c[2])
            <=> FilledByRule(BeadFill(this, c[1], c[2]), this.fillThreshold)

\* C1 witness: a drawing is loaded, the threshold is 0, the mouse is over a
\* filled bead and the overlay shows a row count.
C1_Witness ==
    /\ this.hasLoadedFile
    /\ this.fillThreshold = R(0)
    /\ ui.filledBeads > 0
    /\ this.hoveredBead # NoBead
    /\ ui.overlay.display /\ ui.overlay.count > 0

\* The scenario of C3: the circle of centre (50, 50) and radius 20 loaded
\* from a DXF, square topology, 10 mm cells in a 40 mm x 40 mm workspace,
\* no grid offset, threshold 1/2.
ScenarioB ==
    /\ this.hasLoadedFile /\ this.loadedFileName = "circle.dxf"
    /\ this.gridType = "square"
    /\ this.fillThreshold = Q(1, 2)
    /\ this.workspaceWidthMM = R(40) /\ this.workspaceHeightMM = R(40)
    /\ this.pixelWidthMM = R(10) /\ this.pixelHeightMM = R(10)
    /\ this.gridOffsetX = R(0) /\ this.gridOffsetY = R(0)

InteriorCells == {1, 2} \X {1, 2}
CornerCells == {0, 3} \X {0, 3}

\* C3 as stated: in the scenario the document measures 40 x 40 and exactly
\* the 4 interior cells of the 4 x 4 grid are filled, the 12 others are not.
C3_AsStated ==
    ScenarioB =>
        /\ this.fileWidthMM = R(40) /\ this.fileHeightMM = R(40)
        /\ ui.gridWidth = 4 /\ ui.gridHeight = 4
        /\ FilledCells(this, 4, 4) = InteriorCells
        /\ ui.filledBeads = 4

\* C3 amended: in the scenario the document measures 40 x 40 and the filled
\* cells are the 12 cells other than the 4 corners (an edge cell has 22 of
\* its 25 samples inside the circle, a corner cell 8).
C3_EdgeCellsFilled ==
    ScenarioB =>
        /\ this.fileWidthMM = R(40) /\ this.fileHeightMM = R(40)
        /\ ui.gridWidth = 4 /\ ui.gridHeight = 4
        /\ FilledCells(this, 4, 4) = Cells(4, 4) \ CornerCells
        /\ ui.filledBeads = 12
        /\ \A c \in Cells(4, 4) :
             CellFill(this, CurrentGeometry, CellOrigin(this, CurrentGeometry, c[1], c[2]))
                = IF c \in CornerCells THEN Q(8, 25)
                  ELSE IF c \in InteriorCells THEN R(1) ELSE Q(22, 25)

\* C3 witness: the scenario after the upload has completed, 12 beads shown.
C3_Witness == ScenarioB /\ pending = {} /\ ui.filledBeads = 12

\* A step that raises (or keeps) the threshold and changes nothing else.
RaisesThreshold ==
    /\ RGe(this'.fillThreshold, this.fillThreshold)
    /\ this' = [this EXCEPT !.fillThreshold = this'.fillThreshold]

\* The fill percentage of every cell, as pairs <<cell, percentage>>.
CellFills(s) ==
    LET gridWidth == GridDim(s.workspaceWidthMM, s.pixelWidthMM)
        gridHeight == GridDim(s.workspaceHeightMM, s.pixelHeightMM)
        g == GridGeometry(s, gridWidth, gridHeight)
    IN  {<<c, CellFill(s, g, CellOrigin(s, g, c[1], c[2]))>> : c \in Cells(gridWidth, gridHeight)}

\* C4: the fill percentage of a cell does not depend on the threshold, a
\* cell filled at a threshold is filled at every lower one, and the count
\* of filled beads never increases when the threshold is raised.
C4_Monotone ==
    [][RaisesThreshold =>
          LET before == CellFills(this)
              after == CellFills(this')
          IN  /\ before = after
              /\ {p \in after : Classify(this', p[2])}
                    \subseteq {p \in before : Classify(this, p[2])}
              /\ ui'.filledBeads <= ui.filledBeads]_vars

\* C4 witness: the threshold raised to 1 with the circle loaded; the count
\* has dropped to the 4 interior cells.
C4_Witness ==
    /\ this.hasLoadedFile /\ this.gridType = "square"
    /\ this.fillThreshold = R(1)
    /\ ui.filledBeads = 4

\* C2 as stated: with a file loaded, the samples of a cell that fall outside
\* the document's [0,1] x [0,1] are not counted in totalPoints (so a cell
\* wholly outside the document has totalPoints = 0).
C2_OutsideSamplesExcluded ==
    FileLoaded(this) =>
        \A c \in Cells(CurrentGridWidth, CurrentGridHeight) :
            LET g == CurrentGeometry
                o == CellOrigin(this, g, c[1], c[2])
                t == SamplerTransform(this)
                coords == SampleCoords(this, o.x, o.y, g.pixelWidthPx, g.pixelHeightPx,
                                       g.canvasWidth, g.canvasHeight, t)
                n == SamplePoints(this, o.x, o.y, g.pixelWidthPx, g.pixelHeightPx,
                                  g.canvasWidth, g.canvasHeight, t)
            IN  n.totalPoints =
                   Cardinality({p \in DOMAIN coords : ~OutsideFile(coords[p][1], coords[p][2])})

\* C5 as stated: a cell whose fill percentage is 0 is never classified
\* filled, whatever the threshold, and with no file loaded the count of
\* filled beads is 0.
C5_ZeroFillNeverFilled ==
    /\ \A p \in CellFills(this) : p[2] = R(0) => ~Classify(this, p[2])
    /\ ~this.hasLoadedFile => ui.filledBeads = 0

\* C6: the origin of cell (row, col) is (col*cw + gx + dx, row*ch + gy + dy)
\* where dy = ch/2 only for peyote and an odd column, dx = cw/2 only for
\* brick and an odd row, and both are 0 otherwise.
C6_CellOrigin ==
    \A c \in Cells(CurrentGridWidth, CurrentGridHeight) :
        LET row == c[1]
            col == c[2]
            cw == CurrentGeometry.pixelWidthPx
            ch == CurrentGeometry.pixelHeightPx
            gx == RMul(RDiv(this.gridOffsetX, this.workspaceWidthMM), this.currentCanvasWidth)
            gy == RMul(RDiv(this.gridOffsetY, this.workspaceHeightMM), this.currentCanvasHeight)
            dx == IF this.gridType = "brick" /\ row % 2 = 1 THEN RDiv(cw, R(2)) ELSE R(0)
            dy == IF this.gridType = "peyote" /\ col % 2 = 1 THEN RDiv(ch, R(2)) ELSE R(0)
        IN  CellOrigin(this, CurrentGeometry, row, col) =
                [x |-> RAdd(RAdd(RMul(R(col), cw), gx), dx),
                 y |-> RAdd(RAdd(RMul(R(row), ch), gy), dy)]

\* C6 witness: a peyote grid 3 cells wide with a grid offset; column 1
\* starts half a cell below the offset.
C6_Witness ==
    /\ this.gridType = "peyote" /\ ui.gridWidth = 3 /\ this.gridOffsetY = R(5)
    /\ CellOrigin(this, CurrentGeometry, 0, 1).y =
          RAdd(Half(CurrentGeometry.pixelHeightPx), CurrentGeometry.gridOffsetPxY)
    /\ CellOrigin(this, CurrentGeometry, 0, 0).y = CurrentGeometry.gridOffsetPxY

\* n = max(1, floor(workspaceMM / pixelMM)), said without floor and max.
IsGridDim(n, workspaceMM, pixelMM) ==
    IF RLt(workspaceMM, pixelMM)
    THEN n = 1
    ELSE RLe(RMul(R(n), pixelMM), workspaceMM) /\ RLt(workspaceMM, RMul(R(n + 1), pixelMM))

\* C7: the grid dimensions shown by the page and used by the renderer are
\* max(1, floor(workspace / cell)) on each axis, and both are at least 1
\* after any sequence of size changes.
C7_GridDimensions ==
    /\ IsGridDim(ui.gridWidth, this.workspaceWidthMM, this.pixelWidthMM)
    /\ IsGridDim(ui.gridHeight, this.workspaceHeightMM, this.pixelHeightMM)
    /\ canvas.gridWidth = ui.gridWidth /\ canvas.gridHeight = ui.gridHeight
    /\ ui.gridWidth >= 1 /\ ui.gridHeight >= 1

\* C7 witness: a cell wider than the workspace; the grid is 1 cell wide.
C7_Witness ==
    /\ RLt(this.workspaceWidthMM, this.pixelWidthMM)
    /\ ui.gridWidth = 1 /\ canvas.gridWidth = 1
    /\ ui.gridHeight = 3

\* C8: the sampler's map fileX = (workspaceX - offsetX) / scaleX undoes the
\* renderer's map workspaceX = offsetX + fileX * scaleX on every contour
\* point (likewise for y), and both compute scale and offset by the same
\* formula.
C8_InverseTransforms ==
    /\ ContourTransform(this) = SamplerTransform(this)
    /\ FileLoaded(this) =>
          \A i \in 1..Len(this.contour) :
              LET t == SamplerTransform(this)
                  w == ContourToWorkspace(this, this.contour[i])
              IN  /\ ToFile(w.x, t.offsetX, t.scaleX) = this.contour[i].x
                  /\ ToFile(w.y, t.offsetY, t.scaleY) = this.contour[i].y

\* C8 witness: an SVG drawn at half its size, so that scale and offset are
\* not the identity, with its contour on the canvas.
C8_Witness ==
    /\ FileLoaded(this) /\ Len(this.contour) > 0
    /\ SamplerTransform(this).scaleX = Q(1, 2)
    /\ SamplerTransform(this).offsetX = Q(1, 4)
    /\ canvas.path = renderContour(this)

\* Normalized points outside [0,1] x [0,1], one beyond each side and one
\* beyond a corner.
OutsidePoints ==
    {Pt(Q(-1, 4), Q(1, 2)), Pt(Q(5, 4), Q(1, 2)), Pt(Q(1, 2), Q(-1, 4)),
     Pt(Q(1, 2), Q(5, 4)), Pt(Q(-1, 4), Q(5, 4))}

\* C9 as stated: every fill predicate (the loaders' closures and the
\* applyScale wrapper at any scale) returns false at every normalized point
\* with x < 0, x > 1, y < 0 or y > 1.
C9_AsStated ==
    \A p \in OutsidePoints :
        /\ ~CallDrawing(this, this.originalDrawingFunction, p.x, p.y)
        /\ ~CallDrawing(this, this.originalDrawing, p.x, p.y)

\* The point of the unscaled document that the wrapper looks up for p.
BackScaled(p, scale) ==
    Pt(RAdd(Q(1, 2), RDiv(RSub(p.x, Q(1, 2)), scale)),
       RAdd(Q(1, 2), RDiv(RSub(p.y, Q(1, 2)), scale)))

\* C9 amended: the loaders' closures return false at every point outside
\* [0,1] x [0,1]; the applyScale wrapper returns false at every point whose
\* back-scaled image 0.5 + (p - 0.5)/scale lies outside [0,1] x [0,1], hence
\* at every point outside [0,1] x [0,1] when scale <= 1.
C9_BackScaledBounds ==
    \A p \in OutsidePoints :
        /\ ~CallDrawing(this, this.originalDrawingFunction, p.x, p.y)
        /\ this.originalDrawing.kind # "scaled"
              => ~CallDrawing(this, this.originalDrawing, p.x, p.y)
        /\ this.originalDrawing.kind = "scaled" =>
              LET scale == this.originalDrawing.scale
                  b == BackScaled(p, scale)
              IN  /\ OutsideFile(b.x, b.y) => ~CallDrawing(this, this.originalDrawing, p.x, p.y)
                  /\ RLe(scale, R(1)) => ~CallDrawing(this, this.originalDrawing, p.x, p.y)

\* C9 witness: a wrapper for scale 1/2 is installed and is not constantly
\* false (the centre of the drawing is filled).
C9_Witness ==
    /\ this.originalDrawing.kind = "scaled"
    /\ this.originalDrawing.scale = Q(1, 2)
    /\ CallDrawing(this, this.originalDrawing, Q(1, 2), Q(1, 2))

\* The fields C10 calls the loaded-document state.
DocumentState(s) ==
    <<s.fileType, s.hasLoadedFile, s.originalDrawing, s.originalDrawingFunction,
      s.contour, s.originalContour, s.loadedFileName, s.fileWidthMM, s.fileHeightMM>>

\* A step in which a suspended handleFileUpload ends in its catch block.
UploadFails ==
    /\ pending' # pending /\ pending' \subseteq pending
    /\ ui'.notification = "error"

\* C10 as stated: when handleFileUpload ends in its error path, the
\* loaded-document state is what it was before.
C10_ErrorKeepsDocument ==
    [][UploadFails => DocumentState(this') = DocumentState(this)]_vars

\* The files of Files whose upload ends in the success notification from
\* every state: the loader returns a drawing and a size for them.
SucceedingFiles == {f \in Files : validateFileSize(f.size) /\ Load(f).ok
                                    /\ Len(Load(f).contour) > 0}

\* ui.fileInput names the file of the latest handleFileUpload call.  With no
\* handler suspended and the last handler to finish having succeeded, a
\* document other than the latest request's is on the page only if its
\* handler was suspended when the latest request was made and resumed after
\* that request's handler did.
LatestRequestDone ==
    /\ pending = {}
    /\ ui.notification = "success"
    /\ \E f \in SucceedingFiles : ui.fileInput = f.name

\* C11 as stated: when two uploads overlap and both succeed, the loaded
\* document is the one of the later call, whichever loader settles first.
C11_LastRequestWins ==
    LatestRequestDone => this.loadedFileName = ui.fileInput

\* A step in which the suspended upload of file resumes and the document is
\* installed.
Loaded(file) == file \in pending /\ file \notin pending' /\ this'.hasLoadedFile

\* The bounding box loadDXF hands to extractContour.
BBoxOf(file) == calculateBoundingBox(file.entities)

IsClosedPolyline(e) == e.type \in {"POLYLINE", "LWPOLYLINE"} /\ e.closed

\* The outline the stated priority order allows for a list of entities.
StatedContours(entities, bbox) ==
    LET n == Len(entities)
    IN  IF \E i \in 1..n : entities[i].type = "CIRCLE"
        THEN {CirclePoints(entities[i], bbox) : i \in {j \in 1..n : entities[j].type = "CIRCLE"}}
        ELSE IF \E i \in 1..n : IsClosedPolyline(entities[i])
        THEN {PolylinePoints(entities[i], bbox) : i \in {j \in 1..n : IsClosedPolyline(entities[j])}}
        ELSE IF Len(extractSegments(entities)) > 0
        THEN {StitchedPoints(entities, bbox)}
        ELSE {BoxCorners}

\* C12 as stated: the contour of a loaded document is the tessellation of a
\* CIRCLE if there is one, else the vertices of a closed polyline if there is
\* one, else the stitched LINE and ARC segments if there are any, else the
\* four corners of the box.
C12_StrictPriority ==
    [][\A file \in pending :
          Loaded(file) => this'.contour \in StatedContours(file.entities, BBoxOf(file))]_vars

\* C13 as stated: the contour a loader returns, when it returns one, has at
\* least 3 points.
C13_AtLeastThreePoints ==
    [][\A file \in pending : Loaded(file) => Len(Load(file).contour) >= 3]_vars

\* A step in which the suspended upload of file resumes, whatever its end.
Resumed(file) == file \in pending /\ file \notin pending'

EndPoints(line) == {Pt(line.x1, line.y1), Pt(line.x2, line.y2)}

\* Three LINE entities with finite coordinates; each shares an end point
\* with the next, and the last does not come back to the first.
IsOpenChain(entities) ==
    /\ Len(entities) = 3
    /\ \A i \in 1..3 : /\ entities[i].type = "LINE"
                       /\ IsNum(entities[i].x1) /\ IsNum(entities[i].y1)
                       /\ IsNum(entities[i].x2) /\ IsNum(entities[i].y2)
    /\ EndPoints(entities[1]) \cap EndPoints(entities[2]) # {}
    /\ EndPoints(entities[2]) \cap EndPoints(entities[3]) # {}
    /\ EndPoints(entities[3]) \cap EndPoints(entities[1]) = {}

OnlyClosedPolylines(entities) ==
    \A i \in 1..Len(entities) :
        /\ IsClosedPolyline(entities[i])
        /\ Len(entities[i].vertices) > 0
        /\ \A k \in 1..Len(entities[i].vertices) :
              IsNum(entities[i].vertices[k].x) /\ IsNum(entities[i].vertices[k].y)

AllVertices(entities) ==
    UNION {{entities[i].vertices[k] : k \in 1..Len(entities[i].vertices)} : i \in 1..Len(entities)}

InUnitInterval(a) == IsNum(a) /\ RLe(R(0), a) /\ RLe(a, R(1))

\* C15: when a document of closed polylines with finite vertices is loaded,
\* the contour has one point per vertex of its first polyline, every point
\* has both coordinates in [0,1], and point i is vertex i moved by the least
\* x and y of all vertices and divided by the width and height of their box:
\* the least y maps to 0 and the greatest to 1.
C15_PolylineContourInUnitSquare ==
    [][\A file \in pending :
          (OnlyClosedPolylines(file.entities) /\ Loaded(file))
             => LET all == AllVertices(file.entities)
                    minX == CHOOSE a \in {v.x : v \in all} : \A v \in all : RLe(a, v.x)
                    minY == CHOOSE a \in {v.y : v \in all} : \A v \in all : RLe(a, v.y)
                    maxX == CHOOSE a \in {v.x : v \in all} : \A v \in all : RLe(v.x, a)
                    maxY == CHOOSE a \in {v.y : v \in all} : \A v \in all : RLe(v.y, a)
                    vertices == file.entities[1].vertices
                    contour == this'.contour
                IN  /\ RLt(minX, maxX) /\ RLt(minY, maxY)
                    /\ Len(contour) = Len(vertices)
                    /\ \A i \in 1..Len(contour) :
                          /\ InUnitInterval(contour[i].x) /\ InUnitInterval(contour[i].y)
                          /\ RAdd(minX, RMul(contour[i].x, RSub(maxX, minX))) = vertices[i].x
                          /\ RAdd(minY, RMul(contour[i].y, RSub(maxY, minY))) = vertices[i].y]_vars

\* The square 0..10 is loaded from a document that also holds the triangle
\* reaching to 20: the contour is the square in the lower left quarter.
C15_Witness ==
    /\ this.hasLoadedFile
    /\ this.contour = <<Pt(R(0), R(0)), Pt(Q(1, 2), R(0)), Pt(Q(1, 2), Q(1, 2)), Pt(R(0), Q(1, 2))>>

\* A step that loads a document whose contour is stitched from segments.
StitchedFile(file) == Loaded(file) /\ ContourSource(file.entities) = "SEGMENTS"

StartOf(seg) == Pt(seg.startX, seg.startY)
EndOf(seg) == Pt(seg.endX, seg.endY)

\* |dx| < 0.5 and |dy| < 0.5.
WithinTolerance(p, q) ==
    LET dx == RSub(p.x, q.x)
        dy == RSub(p.y, q.y)
    IN  /\ IsNum(dx) /\ IsNum(dy)
        /\ RLt(dx, Q(1, 2)) /\ RLt(RSub(R(0), dx), Q(1, 2))
        /\ RLt(dy, Q(1, 2)) /\ RLt(RSub(R(0), dy), Q(1, 2))

\* The segment with start and end swapped and its points in reverse order.
Turned(seg) ==
    [type |-> seg.type, startX |-> seg.endX, startY |-> seg.endY,
     endX |-> seg.startX, endY |-> seg.startY,
     points |-> [k \in 1..Len(seg.points) |-> seg.points[Len(seg.points) + 1 - k]]]

\* The input indices not placed before position k of the output.
UnusedAt(st, n, k) == (1..n) \ {st.from[j] : j \in 1..(k - 1)}

\* C16: the output of orderSegments starts with input segment 0 as it is;
\* every segment placed by matching starts within the tolerance of the end
\* of the segment before it; it is the input segment itself when that one's
\* start matched, and the input segment turned round (ends swapped, points
\* reversed) when only its end matched.
C16_StitchedByMatching ==
    [][\A file \in pending :
          StitchedFile(file)
             => LET segments == extractSegments(file.entities)
                    st == Stitch(segments)
                    ordered == orderSegments(segments)
                IN  /\ ordered = st.ordered
                    /\ ordered[1] = segments[1]
                    /\ \A k \in 2..Len(ordered) :
                          st.how[k] # "leftover"
                             => LET orig == segments[st.from[k]]
                                    prevEnd == EndOf(ordered[k - 1])
                                IN  /\ WithinTolerance(StartOf(ordered[k]), prevEnd)
                                    /\ IF WithinTolerance(StartOf(orig), prevEnd)
                                       THEN ordered[k] = orig
                                       ELSE /\ WithinTolerance(EndOf(orig), prevEnd)
                                            /\ ordered[k] = Turned(orig)]_vars

\* The line (0,10)-(10,10) and the arc from (10,0) over (15,5) to (10,10) are
\* loaded: the arc matched with its end and was turned round.
C16_Witness ==
    /\ this.hasLoadedFile
    /\ this.contour = <<Pt(R(0), R(1)), Pt(Q(2, 3), R(1)),
                        Pt(Q(2, 3), R(1)), Pt(R(1), Q(1, 2)), Pt(Q(2, 3), R(0))>>

NoMatchAt(segments, st, k) ==
    \A i \in UnusedAt(st, Len(segments), k) :
        /\ ~WithinTolerance(StartOf(segments[i]), EndOf(st.ordered[k - 1]))
        /\ ~WithinTolerance(EndOf(segments[i]), EndOf(st.ordered[k - 1]))

\* C18: when, after a segment placed by the search (or the first), no unused
\* segment matches the path end, the load still succeeds and the rest of
\* the output is the unused input segments, unchanged, by ascending index.
C18_LeftoversInInputOrder ==
    [][\A file \in pending :
          StitchedFile(file)
             => LET segments == extractSegments(file.entities)
                    st == Stitch(segments)
                    n == Len(segments)
                IN  /\ ui'.notification = "success"
                    /\ \A k \in 2..n :
                          (st.how[k - 1] # "leftover" /\ NoMatchAt(segments, st, k))
                             => LET rest == Ascending(UnusedAt(st, n, k))
                                IN  /\ Len(st.ordered) = n
                                    /\ \A j \in k..n : st.ordered[j] = segments[rest[j - k + 1]]]_vars

\* The lines (50,50)-(60,60), (10,0)-(10,10), (0,0)-(10,0) are loaded:
\* nothing meets (60,60), and the two other lines follow in input order.
C18_Witness ==
    /\ this.hasLoadedFile
    /\ this.contour = <<Pt(Q(5, 6), Q(5, 6)), Pt(R(1), R(1)), Pt(Q(1, 6), R(0)),
                        Pt(Q(1, 6), Q(1, 6)), Pt(R(0), R(0)), Pt(Q(1, 6), R(0))>>

\* The squared distance of two points.
Dist2(p, q) ==
    RAdd(RMul(RSub(p.x, q.x), RSub(p.x, q.x)), RMul(RSub(p.y, q.y), RSub(p.y, q.y)))

\* The ends of a segment that are within the tolerance of a point.
MatchingEnds(seg, p) == {e \in {StartOf(seg), EndOf(seg)} : WithinTolerance(e, p)}

\* C19 as stated: a segment placed by the search has a matching end that is
\* at least as near to the path end as every matching end of every segment
\* still unused at that step.
C19_NearestEndpoint ==
    [][\A file \in pending :
          StitchedFile(file)
             => LET segments == extractSegments(file.entities)
                    st == Stitch(segments)
                    n == Len(segments)
                IN  \A k \in 2..n :
                       st.how[k] # "leftover"
                          => LET prevEnd == EndOf(st.ordered[k - 1])
                                 chosen == segments[st.from[k]]
                             IN  \E e \in MatchingEnds(chosen, prevEnd) :
                                    \A i \in UnusedAt(st, n, k) :
                                       \A f \in MatchingEnds(segments[i], prevEnd) :
                                          RLe(Dist2(e, prevEnd), Dist2(f, prevEnd))]_vars

\* The LINE entities all of whose fields are finite.
ValidLines(entities) ==
    {i \in 1..Len(entities) :
        /\ entities[i].type = "LINE"
        /\ IsNum(entities[i].x1) /\ IsNum(entities[i].y1)
        /\ IsNum(entities[i].x2) /\ IsNum(entities[i].y2)}

\* C20 as stated: when the upload of a DXF resumes, calculateBoundingBox
\* either throws or returns a box whose four components are finite numbers
\* and which contains the end points of every LINE with finite fields; it
\* throws when every entity is a LINE or a CIRCLE with a field that is not
\* finite.
C20_BoxIsFinite ==
    [][\A file \in pending :
          (Resumed(file) /\ Len(file.entities) > 0)
             => LET entities == file.entities
                    box == calculateBoundingBox(entities)
                IN  /\ box.valid
                       => /\ IsNum(box.minX) /\ IsNum(box.minY)
                          /\ IsNum(box.maxX) /\ IsNum(box.maxY)
                          /\ \A i \in ValidLines(entities) :
                                /\ RLe(box.minX, entities[i].x1) /\ RLe(entities[i].x1, box.maxX)
                                /\ RLe(box.minX, entities[i].x2) /\ RLe(entities[i].x2, box.maxX)
                                /\ RLe(box.minY, entities[i].y1) /\ RLe(entities[i].y1, box.maxY)
                                /\ RLe(box.minY, entities[i].y2) /\ RLe(entities[i].y2, box.maxY)
                    /\ (\A i \in 1..Len(entities) :
                           /\ entities[i].type \in {"LINE", "CIRCLE"}
                           /\ \E fld \in DOMAIN entities[i] \ {"type"} : ~IsNum(entities[i][fld]))
                          => ~box.valid]_vars

\* The entity list is not empty and its bounding box has a finite width and
\* a finite height, both above 0.
HasExtent(entities) ==
    LET Positive(box) ==
            /\ box.valid
            /\ IsNum(box.minX) /\ IsNum(box.minY) /\ IsNum(box.maxX) /\ IsNum(box.maxY)
            /\ RLt(box.minX, box.maxX) /\ RLt(box.minY, box.maxY)
            /\ IsNum(Overflow(RSub(box.maxX, box.minX)))
            /\ IsNum(Overflow(RSub(box.maxY, box.minY)))
    IN  Len(entities) > 0 /\ Positive(calculateBoundingBox(entities))

\* C21: the upload of a DXF installs a document exactly when the entity list
\* is not empty and its box has finite width and height above 0; otherwise
\* loadDXF throws: the upload ends with the error notification and the
\* application keeps no contour, predicate or size of the file.
C21_LoadNeedsExtent ==
    [][\A file \in pending :
          Resumed(file)
             => /\ Loaded(file) <=> HasExtent(file.entities)
                /\ Load(file).ok <=> HasExtent(file.entities)
                /\ HasExtent(file.entities)
                      => /\ IsNum(this'.fileWidthMM) /\ RGt(this'.fileWidthMM, R(0))
                         /\ IsNum(this'.fileHeightMM) /\ RGt(this'.fileHeightMM, R(0))
                /\ ~HasExtent(file.entities)
                      => /\ this' = this /\ canvas' = canvas
                         /\ ui'.notification = "error"
                         /\ Load(file) = Thrown]_vars

\* An upload has ended in the error notification and no document is shown:
\* the list was empty, had no valid entity, or its box had no extent.
C21_Witness ==
    /\ pending = {} /\ ui.fileInput = "drawing.dxf"
    /\ ui.notification = "error" /\ ~ui.loading
    /\ ~this.hasLoadedFile /\ this.contour = <<>>

\* The entities that the recognised code 0 lines from index i up to index
\* end give, each parsed where it stands, in file order.
RECURSIVE EntitiesBetween(_, _, _)
EntitiesBetween(lines, i, end) ==
    IF i >= end THEN <<>>
    ELSE (IF At(lines, i) = "0" THEN ParseEntity(lines, i, At(lines, i + 1)) ELSE <<>>)
            \o EntitiesBetween(lines, i + 2, end)

\* Indices of the group codes, and the least of a set of them (the length
\* of the text when the set is empty).
GroupIndices(lines) == {i \in 0..(Len(lines) - 1) : i % 2 = 0}
LeastIndex(lines, S) == IF S = {} THEN Len(lines) ELSE CHOOSE i \in S : \A j \in S : i <= j

\* The first group after "0/SECTION, 2/ENTITIES" and the "0/ENDSEC" that
\* ends that section.
SectionStart(lines) ==
    LeastIndex(lines, {i + 4 : i \in {i \in GroupIndices(lines) :
                          /\ At(lines, i) = "0" /\ At(lines, i + 1) = "SECTION"
                          /\ At(lines, i + 2) = "2" /\ At(lines, i + 3) = "ENTITIES"}})
SectionEnd(lines) ==
    LeastIndex(lines, {i \in GroupIndices(lines) :
                          /\ i >= SectionStart(lines)
                          /\ At(lines, i) = "0" /\ At(lines, i + 1) = "ENDSEC"})

\* C30: the entity list that parseDXF returns holds, in file order, what the
\* entity starts between "0/SECTION, 2/ENTITIES" and the next "0/ENDSEC"
\* give, each start at most one entity; entity starts in other sections,
\* after the section or outside any section give nothing, and a text whose
\* ENTITIES section gives nothing is not loaded.
C30_OnlyEntitiesSection ==
    [][\A file \in pending : Resumed(file) =>
          LET lines == file.text
              inSection == EntitiesBetween(lines, SectionStart(lines), SectionEnd(lines))
              starts == {i \in GroupIndices(lines) :
                            /\ SectionStart(lines) <= i /\ i < SectionEnd(lines)
                            /\ At(lines, i) = "0"
                            /\ At(lines, i + 1) \in {"LINE", "CIRCLE", "ARC", "POLYLINE",
                                                     "LWPOLYLINE", "ELLIPSE", "SPLINE"}}
          IN  /\ parseDXF(lines).entities = inSection
              /\ Len(parseDXF(lines).entities) <= Cardinality(starts)
              /\ \A i \in starts : Len(ParseEntity(lines, i, At(lines, i + 1))) <= 1
              /\ inSection = <<>> =>
                    /\ ~Loaded(file)
                    /\ this' = this /\ ui'.notification = "error"]_vars

\* A text that holds a BLOCKS, an ENTITIES and an OBJECTS section was loaded.
C30_Witness ==
    /\ pending = {} /\ ~ui.loading
    /\ ui.fileInput = "sections.dxf" /\ this.hasLoadedFile /\ ui.notification = "success"

\* The vertices that a list of 10/20 pairs stands for.
PairsAsVertices(V) == [i \in 1..Len(V) |-> Pt(parseFloat(V[i][1]), parseFloat(V[i][2]))]

EntityTypes == {"LINE", "CIRCLE", "ARC", "POLYLINE", "LWPOLYLINE", "ELLIPSE", "SPLINE"}
KnownMarks == EntityTypes \cup {"VERTEX", "SEQEND", "SECTION", "ENDSEC", "EOF"}

RECURSIVE WithoutOtherTypes(_, _, _)
\* The text from index i without the entities of other types, each taken out
\* from its code 0 line to the line before the next code 0 line.
WithoutOtherTypes(lines, i, skipping) ==
    LET skip == IF At(lines, i) = "0" THEN At(lines, i + 1) \notin KnownMarks ELSE skipping
    IN  IF i >= Len(lines) THEN <<>>
        ELSE (IF skip THEN <<>> ELSE <<At(lines, i), At(lines, i + 1)>>)
                \o WithoutOtherTypes(lines, i + 2, skip)

\* The lines of the entity that starts at index i: up to the next code 0
\* line, for a POLYLINE up to the next code 0 line that is not a VERTEX.
OwnLines(lines, i) ==
    LET ends == {j \in GroupIndices(lines) :
                    /\ j > i /\ At(lines, j) = "0"
                    /\ ~(At(lines, i + 1) = "POLYLINE" /\ At(lines, j + 1) = "VERTEX")}
    IN  SubSeq(lines, i + 1, LeastIndex(lines, ends))

\* C23: entities of other types change nothing in the parsed list (the text
\* without them parses to the same list), and every entity read is what its
\* own lines alone parse to.
C23_OwnGroupCodesOnly ==
    [][\A file \in pending : Resumed(file) =>
          LET lines == file.text
              starts == {i \in GroupIndices(lines) :
                            /\ SectionStart(lines) <= i /\ i < SectionEnd(lines)
                            /\ At(lines, i) = "0" /\ At(lines, i + 1) \in EntityTypes}
          IN  /\ parseDXF(WithoutOtherTypes(lines, 0, FALSE)).entities = parseDXF(lines).entities
              /\ \A i \in starts :
                    ParseEntity(lines, i, At(lines, i + 1))
                       = ParseEntity(OwnLines(lines, i), 0, At(lines, i + 1))]_vars

\* C24: the size of an SVG document is the third and the fourth number of
\* its viewBox when it has one; otherwise it is what parseFloat makes of the
\* width and of the height attribute without their non-numeric characters,
\* and 100 for an attribute that is absent or that gives no number; the
\* size without a viewBox is never NaN, and it is the size stored.
C24_SizeOrDefault ==
    [][\A file \in pending : Resumed(file) =>
          LET svg == file.attributes
              size == DocumentSize(svg)
              numbers == Split(getAttribute(svg, "viewBox"), 1, 1, WhiteSpace)
              Stated(name) ==
                  IF getAttribute(svg, name) = ""
                     \/ ~IsNum(parseFloat(DigitsAndDots(getAttribute(svg, name), 1)))
                  THEN R(100)
                  ELSE parseFloat(DigitsAndDots(getAttribute(svg, name), 1))
          IN  /\ getAttribute(svg, "viewBox") # "" /\ Len(numbers) >= 4 =>
                    size[3] = parseFloat(numbers[3]) /\ size[4] = parseFloat(numbers[4])
              /\ getAttribute(svg, "viewBox") = "" =>
                    /\ size[3] = Stated("width") /\ size[4] = Stated("height")
                    /\ IsNum(size[3]) /\ IsNum(size[4])
              /\ Loaded(file) =>
                    /\ this'.originalFileWidthMM = size[3]
                    /\ this'.originalFileHeightMM = size[4]]_vars

\* C25: in every reachable state of the page fillThreshold is a number in
\* [0, 1], whatever the slider hands over and whatever project is loaded.
C25_ThresholdInUnitInterval ==
    /\ IsNum(this.fillThreshold)
    /\ RLe(R(0), this.fillThreshold) /\ RLe(this.fillThreshold, R(1))

\* The commands of the path of an uploaded SVG document, <<>> when its
\* first element is no path.
PathOf(file) ==
    IF file.extension = "svg" /\ Len(file.elements) > 0 /\ file.elements[1].tag = "path"
    THEN PathCommands(getAttribute(file.elements[1], "d"), 1)
    ELSE <<>>

\* The contour that a walk which handed these points to addPoint leaves
\* in a document whose viewBox is "0 0 40 40".
AsContour(points) ==
    [k \in 1..Len(points) |-> Pt(RDiv(points[k].x, R(40)), RDiv(points[k].y, R(40)))]

\* The current point after the most recent M or m among the first n
\* commands, the origin if there is none.
RECURSIVE SubpathStart(_, _)
SubpathStart(commands, n) ==
    IF n = 0 THEN Pt(R(0), R(0))
    ELSE IF commands[n].type \in {"M", "m"}
    THEN Pt(Walk(commands, n).currentX, Walk(commands, n).currentY)
    ELSE SubpathStart(commands, n - 1)

\* C26: in the path of a loaded SVG document, Z or z emits exactly one
\* point, the start of the subpath (the point set by the most recent M or
\* m), if and only if the current point differs from that start, and none
\* otherwise; afterwards the current point is the start of the subpath; the
\* contour loaded is made of the points so emitted.
C26_ClosePath ==
    [][\A file \in pending :
         Loaded(file) /\ PathOf(file) # <<>> =>
            LET commands == PathOf(file)
                ClosedAt(n) ==
                    LET before == Walk(commands, n - 1)
                        after == Walk(commands, n)
                        start == SubpathStart(commands, n - 1)
                    IN  /\ after.points =
                              IF Pt(before.currentX, before.currentY) # start
                              THEN Append(before.points, start) ELSE before.points
                        /\ Pt(after.currentX, after.currentY) = start
            IN  /\ \A n \in 1..Len(commands) :
                      commands[n].type \in {"Z", "z"} => ClosedAt(n)
                /\ this'.originalContour = AsContour(Walk(commands, Len(commands)).points)]_vars

\* A path closed by Z from another point than its start is loaded: the
\* contour ends with the start of the path.
C26_Witness ==
    /\ this.hasLoadedFile /\ ui.fileInput = "path.svg"
    /\ this.originalContour = <<Pt(Q(1, 4), Q(1, 4)), Pt(Q(3, 4), Q(1, 4)), Pt(Q(1, 4), Q(1, 4))>>

\* The points of one smooth segment drawn from the state st with the first
\* control point c1: a cubic with the coordinates x2 y2 x y for S and s, a
\* quadratic with the coordinates x y for T and t, read from coords[i] on.
SmoothPoints(st, type, coords, i, c1) ==
    LET relative == type \in {"s", "t"}
        X(k) == Offset(relative, st.currentX, Coord(coords, i + k))
        Y(k) == Offset(relative, st.currentY, Coord(coords, i + k))
    IN  IF type \in {"S", "s"}
        THEN [k \in 1..BEZIER_STEPS |->
                Pt(cubicBezier(st.currentX, c1.x, X(0), X(2), k),
                   cubicBezier(st.currentY, c1.y, Y(1), Y(3), k))]
        ELSE [k \in 1..BEZIER_STEPS |->
                Pt(quadraticBezier(st.currentX, c1.x, X(0), k),
                   quadraticBezier(st.currentY, c1.y, Y(1), k))]

\* C27: in the path of a loaded SVG document, every segment of an S or s
\* command is the cubic whose first control point is 2 * current -
\* lastControl when the segment before it was a cubic (of C, c, S or s) and
\* the current point otherwise, and every segment of a T or t command is
\* the quadratic whose control point is 2 * current - lastControl when the
\* segment before it was a quadratic (of Q, q, T or t) and the current point
\* otherwise; the segment before the second and later segments of one
\* command is the segment before it in that command.
C27_SmoothControlPoint ==
    [][\A file \in pending :
         Loaded(file) /\ PathOf(file) # <<>> =>
            LET commands == PathOf(file)
                Family(type) ==
                    IF type \in {"S", "s"} THEN {"C", "c", "S", "s"} ELSE {"Q", "q", "T", "t"}
                SmoothAt(n, m) ==
                    LET cmd == commands[n]
                        lastCommand == IF n = 1 THEN "" ELSE commands[n - 1].type
                        before == SegmentsTo(Walk(commands, n - 1), cmd, lastCommand, m - 1)
                        after == SegmentsTo(Walk(commands, n - 1), cmd, lastCommand, m)
                        smooth == m > 1 \/ lastCommand \in Family(cmd.type)
                        c1 == IF smooth
                              THEN Pt(RSub(RMul(R(2), before.currentX), before.lastControlX),
                                      RSub(RMul(R(2), before.currentY), before.lastControlY))
                              ELSE Pt(before.currentX, before.currentY)
                    IN  after.points =
                           before.points
                              \o SmoothPoints(before, cmd.type, cmd.coords,
                                              (m - 1) * SegmentStride(cmd.type), c1)
            IN  \A n \in 1..Len(commands) :
                   commands[n].type \in {"S", "s", "T", "t"} =>
                      \A m \in 1..SegmentCount(commands[n]) : SmoothAt(n, m)]_vars

C29_ArcSweep ==
    [][\A file \in pending :
         Resumed(file) =>
            \A n \in 1..Len(file.entities) : \A steps \in {30, 50} :
               LET arc == file.entities[n]
                   IsFinite == /\ arc.type = "ARC"
                               /\ IsNum(arc.cx) /\ IsNum(arc.cy) /\ IsNum(arc.radius)
                               /\ IsNum(arc.startAngle) /\ IsNum(arc.endAngle)
                   InRange == /\ IsNum(Overflow(RAdd(arc.cx, arc.radius)))
                              /\ IsNum(Overflow(RSub(arc.cx, arc.radius)))
                              /\ IsNum(Overflow(RAdd(arc.cy, arc.radius)))
                              /\ IsNum(Overflow(RSub(arc.cy, arc.radius)))
                   Swept(sweep, points, start, end) ==
                       LET PointAt(deg) ==
                               Pt(RAdd(arc.cx, RMul(arc.radius, QuarterCos[((deg \div 90) % 4) + 1])),
                                  RAdd(arc.cy, RMul(arc.radius, QuarterSin[((deg \div 90) % 4) + 1])))
                           turns == sweep.arcLength \div 90
                       IN  /\ sweep.startDeg \in 0..359 /\ (sweep.startDeg - start) % 360 = 0
                           /\ sweep.endDeg \in 0..359 /\ (sweep.endDeg - end) % 360 = 0
                           /\ sweep.arcLength =
                                 IF (end - start) % 360 = 0 THEN 360 ELSE (end - start) % 360
                           /\ sweep.actualSteps >= 2
                           /\ InRange =>
                                 /\ points[1] = PointAt(start)
                                 /\ points[Len(points)] = PointAt(end)
                                 /\ (end - start) % 360 = 0 => points[1] = points[Len(points)]
                                 /\ \A i, j \in 1..Len(points) :
                                       i < j => \E k, l \in 0..turns :
                                                   /\ k < l
                                                   /\ points[i] = PointAt(start + 90 * k)
                                                   /\ points[j] = PointAt(start + 90 * l)
                           /\ ArcPointCount(arc, steps) >= 3
               IN  IsFinite =>
                      Swept(ArcSweep(arc, steps), generateArcPoints(arc, steps),
                            RFloor(arc.startAngle), RFloor(arc.endAngle))]_vars

\* C31: when a DXF document is loaded, every point of the contour it
\* returns has two finite coordinates in [0,1], also when some of its
\* entities have a field that is not a number.
C31_ContourInUnitSquare ==
    [][\A file \in pending :
          Loaded(file) /\ file.extension = "dxf" =>
             \A i \in 1..Len(this'.originalContour) :
                /\ InUnitInterval(this'.originalContour[i].x)
                /\ InUnitInterval(this'.originalContour[i].y)]_vars

\* C32: after every upload that succeeds, the original contour and the
\* original drawing are those that the loader returned for the file
\* uploaded; an empty contour returned leaves no contour of a file loaded
\* earlier in place.
C32_ContourAndDrawingOfOneFile ==
    [][\A file \in pending :
          Resumed(file) /\ Load(file).ok /\ ui'.notification = "success" =>
             /\ this'.originalDrawingFunction = Load(file).drawingFunction
             /\ this'.originalContour = Load(file).contour]_vars
\* C33: whenever saveProject builds projectData for a loaded file, the
\* loadedFileData it writes is the content of the file that loadedFileName
\* names.
C33_SavedDataOfLoadedFile ==
    \A n \in 1..Len(saving.projectData) :
        saving.projectData[n].hasLoadedFile =>
            saving.projectData[n].loadedFileData = saving.projectData[n].loadedFileName

\* C34: a saveProject that has shown the loading indicator is followed by
\* a state in which the indicator is hidden.
C34_LoadingHidden == (saving.at # "idle") ~> ~ui.loading
\* C35: when loadProject ends for a project that holds a file, a true
\* hasLoadedFile and the success notification each imply that the held
\* file was loaded and that drawing and contour are those of that file.
C35_EmbeddedFileLoaded ==
    [][\A file \in pending :
          /\ file.extension = "beading"
          /\ file.at = "handleFileUpload"
          /\ file \notin pending'
          /\ this'.hasLoadedFile \/ ui'.notification = "success"
          => /\ Load(EmbeddedFile(file.data)).ok
             /\ this'.originalDrawingFunction = Load(EmbeddedFile(file.data)).drawingFunction
             /\ this'.originalContour = Load(EmbeddedFile(file.data)).contour]_vars
\* The sum of countBeadsInRow(i) over the indices 0..n.
RECURSIVE SumOfRows(_, _)
SumOfRows(s, n) == IF n < 0 THEN 0 ELSE countBeadsInRow(s, n) + SumOfRows(s, n - 1)

\* C36: for peyote (an index is a column) and brick (an index is a row) the
\* counts of countBeadsInRow over all indices add up to countFilledBeads.
C36_RowsSumToTotal ==
    this.gridType \in {"peyote", "brick"} =>
        SumOfRows(this, (IF this.gridType = "peyote" THEN CurrentGridWidth
                                                    ELSE CurrentGridHeight) - 1)
           = countFilledBeads(this, CurrentGridWidth, CurrentGridHeight)

\* C37: for every topology and every cell of the grid, isBeadFilled puts
\* the cell where countFilledBeads puts it and classifies it as
\* countFilledBeads does.
C37_SameCellSameClass ==
    \A c \in Cells(CurrentGridWidth, CurrentGridHeight) :
        /\ RowCellOrigin(this, CurrentGeometry, c[1], c[2])
              = CellOrigin(this, CurrentGeometry, c[1], c[2])
        /\ isBeadFilled(this, c[1], c[2])
              <=> /\ this.originalDrawing.kind # "null"
                  /\ c \in FilledCells(this, CurrentGridWidth, CurrentGridHeight)

\* Positions in millimetres along a side of the workspace, inside it and
\* beside it.
ProbesMM == {R(-30), R(0), R(12), R(20), R(28), R(40), R(70)}

\* The point of the unscaled document that a sample taken at (xMM, yMM) of
\* the workspace looks up: the sampler's map, then the wrapper's.
ProbedPoint(s, xMM, yMM) ==
    LET t == SamplerTransform(s)
        f == Pt(ToFile(RDiv(xMM, s.workspaceWidthMM), t.offsetX, t.scaleX),
                ToFile(RDiv(yMM, s.workspaceHeightMM), t.offsetY, t.scaleY))
    IN  IF s.originalDrawing.kind = "scaled" THEN BackScaled(f, s.originalDrawing.scale) ELSE f

\* |a - centre| <= size / 2.
WithinCentred(a, centre, size) ==
    RLe(RSub(a, centre), Half(size)) /\ RLe(RSub(centre, a), Half(size))

\* C38: with an SVG of W x H loaded at scale s, fileWidthMM = W * s and
\* fileHeightMM = H * s, and a point of the workspace is looked up inside the
\* document box [0,1] x [0,1] exactly when it lies in the centred region of
\* W * s by H * s.
C38_ScaledRegion ==
    FileLoaded(this) /\ this.fileType = "svg" /\ Truthy(this.originalFileWidthMM)
                     /\ Truthy(this.originalFileHeightMM) /\ this.originalContour # <<>> =>
        /\ this.fileWidthMM = RMul(this.originalFileWidthMM, this.scale)
        /\ this.fileHeightMM = RMul(this.originalFileHeightMM, this.scale)
        /\ \A xMM \in ProbesMM, yMM \in ProbesMM :
              LET o == ProbedPoint(this, xMM, yMM)
              IN  ~OutsideFile(o.x, o.y)
                     <=> /\ WithinCentred(xMM, Half(this.workspaceWidthMM),
                                          RMul(this.originalFileWidthMM, this.scale))
                         /\ WithinCentred(yMM, Half(this.workspaceHeightMM),
                                          RMul(this.originalFileHeightMM, this.scale))
====
